---- MODULE Spec2Model ----
(***************************************************************************)
(* Contact extraction (app/enrichment/contact_extractor.py) and search     *)
(* result parsing (app/crawler/parser.py) of the hackveda crawler.         *)
(*                                                                         *)
(* Python strings are sequences of one-character strings, so that          *)
(* lower(), strip(), substring tests and regular expressions are computed. *)
(* Float scores are exact integers counted in sixtieths (0.05 = 3,         *)
(* 0.1 = 6, 0.4/3 = 8, 1.0 = 60); an average is a fraction <<num, den>>.   *)
(***************************************************************************)
EXTENDS Integers, Sequences, FiniteSets, TLC

(***************************************************************************)
(* Characters and Python str helpers                                       *)
(***************************************************************************)
LowerSeq == <<"a","b","c","d","e","f","g","h","i","j","k","l","m","n","o","p","q","r","s","t","u","v","w","x","y","z">>
UpperSeq == <<"A","B","C","D","E","F","G","H","I","J","K","L","M","N","O","P","Q","R","S","T","U","V","W","X","Y","Z">>
DigitSeq == <<"0","1","2","3","4","5","6","7","8","9">>

Range(f) == {f[i] : i \in DOMAIN f}

LowerChars == Range(LowerSeq)
UpperChars == Range(UpperSeq)
Digits == Range(DigitSeq)
Letters == LowerChars \cup UpperChars
\* \w of the re module (ASCII part)
WordChars == Letters \cup Digits \cup {"_"}
\* \s of the re module (the part the fixtures use)
Whitespace == {" ", "\t", "\n"}

Min(a, b) == IF a < b THEN a ELSE b
Max(a, b) == IF a > b THEN a ELSE b

\* str.lower() on one character
LowerChar(c) ==
    IF c \in UpperChars
    THEN LowerSeq[CHOOSE i \in DOMAIN UpperSeq : UpperSeq[i] = c]
    ELSE c

\* the other case of a letter (re.IGNORECASE compares both)
SwapCase(c) ==
    IF c \in UpperChars
    THEN LowerSeq[CHOOSE i \in DOMAIN UpperSeq : UpperSeq[i] = c]
    ELSE IF c \in LowerChars
    THEN UpperSeq[CHOOSE i \in DOMAIN LowerSeq : LowerSeq[i] = c]
    ELSE c

\* str.lower()
Lower(s) == [i \in DOMAIN s |-> LowerChar(s[i])]

\* s[from:] of Python with a 0-based from
DropFirst(s, n) == IF n >= Len(s) THEN <<>> ELSE SubSeq(s, n + 1, Len(s))

\* str.startswith
StartsWith(s, p) == Len(p) <= Len(s) /\ SubSeq(s, 1, Len(p)) = p

\* str.endswith
EndsWith(s, p) == Len(p) <= Len(s) /\ SubSeq(s, Len(s) - Len(p) + 1, Len(s)) = p

\* the Python test "p in s" on strings
Contains(s, p) ==
    \E i \in 0..(Len(s) - Len(p)) : SubSeq(s, i + 1, i + Len(p)) = p

\* the concatenation of chunks[lo..hi], halving so that long strings do
\* not nest deeply
RECURSIVE Flatten(_, _, _)
Flatten(chunks, lo, hi) ==
    IF lo > hi THEN <<>>
    ELSE IF lo = hi THEN chunks[lo]
    ELSE Flatten(chunks, lo, (lo + hi) \div 2) \o Flatten(chunks, (lo + hi) \div 2 + 1, hi)

\* str.strip()
LStrip(s) ==
    IF \A i \in DOMAIN s : s[i] \in Whitespace THEN <<>>
    ELSE DropFirst(s, (CHOOSE i \in DOMAIN s :
                        s[i] \notin Whitespace /\ \A j \in 1..(i - 1) : s[j] \in Whitespace) - 1)
RStrip(s) ==
    IF \A i \in DOMAIN s : s[i] \in Whitespace THEN <<>>
    ELSE SubSeq(s, 1, CHOOSE i \in DOMAIN s :
                        s[i] \notin Whitespace /\ \A j \in (i + 1)..Len(s) : s[j] \in Whitespace)
Strip(s) == RStrip(LStrip(s))

\* s.split(sep)[0] for a one-character separator
SplitFirst(s, sep) ==
    IF \E i \in DOMAIN s : s[i] = sep
    THEN SubSeq(s, 1, (CHOOSE i \in DOMAIN s : s[i] = sep /\ \A j \in 1..(i - 1) : s[j] # sep) - 1)
    ELSE s

\* the characters of s that are in keep, in order
SelectChars(s, keep) ==
    Flatten([i \in DOMAIN s |-> IF s[i] \in keep THEN <<s[i]>> ELSE <<>>], 1, Len(s))

(***************************************************************************)
(* The part of the re module the patterns use: a pattern is a set of       *)
(* alternatives, each a sequence of items [c: character class, lo, hi]     *)
(* (class repeated lo..hi times).  A run keeps the set of positions        *)
(* <<item, count>> the match can be in.                                    *)
(***************************************************************************)
\* hi of *, + and {n,}
Unbounded == 9999

One(cls) == <<[c |-> cls, lo |-> 1, hi |-> 1]>>
Opt(cls) == <<[c |-> cls, lo |-> 0, hi |-> 1]>>
Plus(cls) == <<[c |-> cls, lo |-> 1, hi |-> Unbounded]>>
Star(cls) == <<[c |-> cls, lo |-> 0, hi |-> Unbounded]>>
Rep(cls, lo, hi) == <<[c |-> cls, lo |-> lo, hi |-> hi]>>
\* a literal string
Lit(s) == [i \in DOMAIN s |-> [c |-> {s[i]}, lo |-> 1, hi |-> 1]]

RECURSIVE ReClosure(_, _)
ReClosure(re, S) ==
    LET more == {<<p[1] + 1, 0>> : p \in {q \in S : q[1] <= Len(re) /\ q[2] >= re[q[1]].lo}}
    IN IF more \subseteq S THEN S ELSE ReClosure(re, S \cup more)

ReInClass(ch, cls, ignorecase) ==
    ch \in cls \/ (ignorecase /\ SwapCase(ch) \in cls)

ReStep(re, S, ch, ignorecase) ==
    ReClosure(re, {<<p[1], p[2] + 1>> :
        p \in {q \in S : /\ q[1] <= Len(re)
                         /\ q[2] < re[q[1]].hi
                         /\ ReInClass(ch, re[q[1]].c, ignorecase)}})

ReAccepts(re, S) == <<Len(re) + 1, 0>> \in S

RECURSIVE ReRun(_, _, _, _, _)
ReRun(re, s, i, S, ignorecase) ==
    IF i > Len(s) \/ S = {} THEN S
    ELSE ReRun(re, s, i + 1, ReStep(re, S, s[i], ignorecase), ignorecase)

\* the whole of s matches one alternative
FullMatch(alts, s, ignorecase) ==
    \E re \in alts : ReAccepts(re, ReRun(re, s, 1, ReClosure(re, {<<1, 0>>}), ignorecase))

\* an accepting position is met on the way through s
RECURSIVE ReRunPrefix(_, _, _, _, _)
ReRunPrefix(re, s, i, S, ignorecase) ==
    \/ ReAccepts(re, S)
    \/ /\ i <= Len(s)
       /\ S # {}
       /\ ReRunPrefix(re, s, i + 1, ReStep(re, S, s[i], ignorecase), ignorecase)

\* re.match: some prefix of s matches one alternative
ReMatch(alts, s, ignorecase) ==
    \E re \in alts : ReRunPrefix(re, s, 1, ReClosure(re, {<<1, 0>>}), ignorecase)

\* \b at both ends of a match that is a whole segment of the text
WordBounded(s) == s # <<>> /\ s[1] \in WordChars /\ s[Len(s)] \in WordChars

\* re.findall(pattern, text) on a text given as its segments: the
\* segments that match as a whole, in text order
RECURSIVE FindAll(_, _, _, _)
FindAll(alts, text, ignorecase, bounded) ==
    IF text = <<>> THEN <<>>
    ELSE (IF FullMatch(alts, text[1], ignorecase) /\ (bounded => WordBounded(text[1]))
          THEN <<text[1]>> ELSE <<>>)
         \o FindAll(alts, Tail(text), ignorecase, bounded)

(***************************************************************************)
(* urllib.parse.urljoin, for the URL shapes the extractor meets            *)
(***************************************************************************)
\* position of the first occurrence of p in s, 0 when there is none
IndexOf(s, p) ==
    IF Contains(s, p)
    THEN CHOOSE i \in 1..Len(s) :
            /\ i + Len(p) - 1 <= Len(s)
            /\ SubSeq(s, i, i + Len(p) - 1) = p
            /\ \A j \in 1..(i - 1) : SubSeq(s, j, j + Len(p) - 1) # p
    ELSE 0

\* position of the last "/" of s, 0 when there is none
LastSlash(s) ==
    IF \E i \in DOMAIN s : s[i] = "/"
    THEN CHOOSE i \in DOMAIN s : s[i] = "/" /\ \A j \in (i + 1)..Len(s) : s[j] # "/"
    ELSE 0

\* urlparse: scheme, netloc and path of a URL (no query or fragment)
UrlParse(u) ==
    LET k == IndexOf(u, <<":","/","/">>)
        hasScheme == k > 1 /\ \A i \in 1..(k - 1) : u[i] \in Letters
        rest == IF hasScheme THEN DropFirst(u, k + 2) ELSE u
        slash == IndexOf(rest, <<"/">>)
    IN IF hasScheme
       THEN [scheme |-> Lower(SubSeq(u, 1, k - 1)),
             netloc |-> IF slash = 0 THEN rest ELSE SubSeq(rest, 1, slash - 1),
             path |-> IF slash = 0 THEN <<>> ELSE DropFirst(rest, slash - 1)]
       ELSE [scheme |-> <<>>, netloc |-> <<>>, path |-> u]

\* a URL that names its own scheme ("https://...", "mailto:...")
HasScheme(u) ==
    LET k == IndexOf(u, <<":">>)
    IN k > 1 /\ \A i \in 1..(k - 1) : u[i] \in Letters

UrlUnparse(scheme, netloc, path) ==
    (IF scheme # <<>> THEN scheme \o <<":","/","/">> ELSE <<>>)
        \o netloc
        \o (IF path # <<>> /\ path[1] # "/" /\ netloc # <<>> THEN <<"/">> ELSE <<>>)
        \o path

urljoin(base, url) ==
    LET b == UrlParse(base)
    IN IF base = <<>> THEN url
       ELSE IF url = <<>> THEN base
       ELSE IF HasScheme(url) THEN url
       ELSE IF url[1] = "/" THEN UrlUnparse(b.scheme, b.netloc, url)
       ELSE UrlUnparse(b.scheme, b.netloc,
                       (IF LastSlash(b.path) = 0
                        THEN (IF b.netloc # <<>> THEN <<"/">> ELSE <<>>)
                        ELSE SubSeq(b.path, 1, LastSlash(b.path))) \o url)

(***************************************************************************)
(* ContactExtractor.__init__: the pattern tables                           *)
(***************************************************************************)
EmailLocalClass == Letters \cup Digits \cup {".", "_", "%", "+", "-"}
EmailDomainClass == Letters \cup Digits \cup {".", "-"}
\* [A-Z|a-z]: the bar is a member of the class
EmailTldClass == Letters \cup {"|"}

email_patterns == <<
    {Plus(EmailLocalClass) \o Lit(<<"@">>) \o Plus(EmailDomainClass)
        \o Lit(<<".">>) \o Rep(EmailTldClass, 2, Unbounded)},
    {Plus(EmailLocalClass) \o Star(Whitespace) \o Lit(<<"[","a","t","]">>) \o Star(Whitespace)
        \o Plus(EmailDomainClass) \o Star(Whitespace) \o Lit(<<"[","d","o","t","]">>)
        \o Star(Whitespace) \o Rep(EmailTldClass, 2, Unbounded)},
    {Plus(EmailLocalClass) \o Star(Whitespace) \o Lit(<<"@">>) \o Star(Whitespace)
        \o Plus(EmailDomainClass) \o Star(Whitespace) \o Lit(<<".">>)
        \o Star(Whitespace) \o Rep(EmailTldClass, 2, Unbounded)} >>

PhoneSep == {"-", ".", " ", "\t", "\n"}

phone_patterns == <<
    {Opt({"+"}) \o Opt({"1"}) \o Opt(PhoneSep) \o Opt({"("}) \o Rep(Digits, 3, 3)
        \o Opt({")"}) \o Opt(PhoneSep) \o Rep(Digits, 3, 3) \o Opt(PhoneSep)
        \o Rep(Digits, 4, 4)},
    {Opt({"+"}) \o Rep(Digits, 1, 4) \o Opt(PhoneSep) \o Rep(Digits, 1, 4)
        \o Opt(PhoneSep) \o Rep(Digits, 1, 4) \o Opt(PhoneSep) \o Rep(Digits, 1, 9)} >>

contact_page_paths == <<
    <<"/","c","o","n","t","a","c","t">>, <<"/","c","o","n","t","a","c","t","-","u","s">>, <<"/","c","o","n","t","a","c","t","_","u","s">>, <<"/","c","o","n","t","a","c","t","u","s">>,
    <<"/","a","b","o","u","t">>, <<"/","a","b","o","u","t","-","u","s">>, <<"/","a","b","o","u","t","_","u","s">>, <<"/","a","b","o","u","t","u","s">>,
    <<"/","t","e","a","m">>, <<"/","s","t","a","f","f">>, <<"/","p","e","o","p","l","e">>,
    <<"/","s","u","p","p","o","r","t">>, <<"/","h","e","l","p">>, <<"/","f","e","e","d","b","a","c","k">>,
    <<"/","i","n","f","o">>, <<"/","i","n","f","o","r","m","a","t","i","o","n">> >>

\* "https?://(?:www\.)?" and then the host
SocialPrefix(host) ==
    {Lit(<<"h","t","t","p">>) \o Opt({"s"}) \o Lit(<<":","/","/">>) \o www \o Lit(host) :
        www \in {<<>>, Lit(<<"w","w","w",".">>)}}

\* the platforms in the order the dict holds them
social_platforms == <<"linkedin", "twitter", "facebook", "instagram", "youtube", "github">>

social_patterns == [platform \in Range(social_platforms) |->
    CASE platform = "linkedin" ->
            {p \o Lit(k) \o Lit(<<"/">>) \o Plus(Letters \cup Digits \cup {"-"}) :
                p \in SocialPrefix(<<"l","i","n","k","e","d","i","n",".","c","o","m","/">>), k \in {<<"i","n">>, <<"c","o","m","p","a","n","y">>}}
      [] platform = "twitter" ->
            {p \o Plus(Letters \cup Digits \cup {"_"}) : p \in SocialPrefix(<<"t","w","i","t","t","e","r",".","c","o","m","/">>)}
      [] platform = "facebook" ->
            {p \o Plus(Letters \cup Digits \cup {"."}) : p \in SocialPrefix(<<"f","a","c","e","b","o","o","k",".","c","o","m","/">>)}
      [] platform = "instagram" ->
            {p \o Plus(Letters \cup Digits \cup {"_", "."}) : p \in SocialPrefix(<<"i","n","s","t","a","g","r","a","m",".","c","o","m","/">>)}
      [] platform = "youtube" ->
            {p \o Lit(k) \o Plus(Letters \cup Digits \cup {"_", "-"}) :
                p \in SocialPrefix(<<"y","o","u","t","u","b","e",".","c","o","m","/">>), k \in {<<"c","h","a","n","n","e","l","/">>, <<"u","s","e","r","/">>, <<"c","/">>}}
      [] platform = "github" ->
            {p \o Plus(Letters \cup Digits \cup {"_", "-"}) : p \in SocialPrefix(<<"g","i","t","h","u","b",".","c","o","m","/">>)}]

spam_indicators == {
    <<"n","o","r","e","p","l","y">>, <<"n","o","-","r","e","p","l","y">>, <<"d","o","n","o","t","r","e","p","l","y">>, <<"d","o","-","n","o","t","-","r","e","p","l","y">>,
    <<"m","a","i","l","e","r","-","d","a","e","m","o","n">>, <<"p","o","s","t","m","a","s","t","e","r">>, <<"w","e","b","m","a","s","t","e","r">>,
    <<"e","x","a","m","p","l","e",".","c","o","m">>, <<"t","e","s","t",".","c","o","m">>, <<"l","o","c","a","l","h","o","s","t">>,
    <<"s","e","n","t","r","y",".","i","o">>, <<"b","u","g","s","n","a","g",".","c","o","m">> }

(***************************************************************************)
(* Python containers                                                       *)
(***************************************************************************)
\* list(set): one list per set; the order Python gives is unspecified and
\* nothing below reads it
RECURSIVE ListOfSet(_)
ListOfSet(S) ==
    IF S = {} THEN <<>>
    ELSE LET x == CHOOSE y \in S : TRUE IN <<x>> \o ListOfSet(S \ {x})

\* the function x |-> F(x) on S, written out element by element
Tabulate(S, F(_)) ==
    LET keys == ListOfSet(S)
        T[i \in 0..Len(keys)] ==
            IF i = 0 THEN [k \in {} |-> k]
            ELSE (keys[i] :> F(keys[i])) @@ T[i - 1]
    IN T[Len(keys)]

\* lst[:n] of Python, n of either sign
SliceTo(lst, n) ==
    IF n >= 0 THEN SubSeq(lst, 1, Min(n, Len(lst)))
    ELSE SubSeq(lst, 1, Max(0, Len(lst) + n))

\* dict.update
DictUpdate(d, e) ==
    [k \in DOMAIN d \cup DOMAIN e |-> IF k \in DOMAIN e THEN e[k] ELSE d[k]]

EmptyDict == [k \in {} |-> <<>>]

\* the elements of a list that satisfy Test, in order
FilterSeq(s, Test(_)) ==
    Flatten([i \in DOMAIN s |-> IF Test(s[i]) THEN <<s[i]>> ELSE <<>>], 1, Len(s))

\* the first occurrence of every element, in order
RECURSIVE Unique(_, _)
Unique(s, seen) ==
    IF s = <<>> THEN <<>>
    ELSE IF s[1] \in seen THEN Unique(Tail(s), seen)
    ELSE <<s[1]>> \o Unique(Tail(s), seen \cup {s[1]})

\* len(text) of a text given as its segments, one separator between two
RECURSIVE TextLen(_)
TextLen(text) ==
    IF text = <<>> THEN 0
    ELSE Len(text[1]) + (IF Len(text) > 1 THEN 1 ELSE 0) + TextLen(Tail(text))

(***************************************************************************)
(* ContactExtractor                                                        *)
(***************************************************************************)
\* 1.0 in sixtieths
ScoreOne == 60

\* Python's None
None == [none |-> TRUE]

\* None where a str is expected: its one element is not a character, so
\* no string is this sequence
NoneStr == <<"None">>

\* None where a text given as its segments is expected
NoneText == <<NoneStr>>

\* "not text" for a str or None
Falsy(text) == text = NoneStr \/ text = <<>>

ContactInfo(emails, contact_pages, social_links, phone_numbers, addresses, confidence_score, extraction_method, source_urls) ==
    [emails |-> emails, contact_pages |-> contact_pages,
     social_links |-> social_links, phone_numbers |-> phone_numbers,
     addresses |-> addresses, confidence_score |-> confidence_score,
     extraction_method |-> extraction_method, source_urls |-> source_urls]

StrictEmailFormat ==
    {Plus(EmailLocalClass) \o Lit(<<"@">>) \o Plus(EmailDomainClass)
        \o Lit(<<".">>) \o Rep(Letters, 2, Unbounded) \o Opt({"\n"})}

\* _is_valid_email without the spam indicators of lines 284-286
_is_valid_email_format_only(email) ==
    IF email = <<>> \/ ~Contains(email, <<"@">>) THEN FALSE
    ELSE FullMatch(StrictEmailFormat, email, FALSE)

_is_valid_email(email) ==
    IF email = <<>> \/ ~Contains(email, <<"@">>) THEN FALSE
    ELSE IF \E indicator \in spam_indicators : Contains(Lower(email), indicator) THEN FALSE
    ELSE IF ~FullMatch(StrictEmailFormat, email, FALSE) THEN FALSE
    ELSE TRUE

_validate_emails(emails) ==
    Unique(FilterSeq(emails, _is_valid_email), {})

\* the anchors find_all('a', href=True) returns
AnchorsWithHref(soup) ==
    FilterSeq(soup, LAMBDA el : el.tag = "a" /\ el.has_href)

\* the addresses the mailto anchors add
MailtoEmails(soup) ==
    LET mailto_links == FilterSeq(AnchorsWithHref(soup),
                                  LAMBDA link : StartsWith(Lower(link.href), <<"m","a","i","l","t","o",":">>))
    IN {SplitFirst(DropFirst(mailto_links[i].href, 7), "?") :
            i \in {j \in DOMAIN mailto_links :
                     /\ StartsWith(mailto_links[j].href, <<"m","a","i","l","t","o",":">>)
                     /\ Contains(SplitFirst(DropFirst(mailto_links[j].href, 7), "?"), <<"@">>)}}

_extract_emails(text, soup) ==
    LET emails == UNION {Range(FindAll(email_patterns[p], text, TRUE, TRUE)) :
                            p \in DOMAIN email_patterns}
                  \cup MailtoEmails(soup)
        cleaned_emails == {Lower(Strip(email)) : email \in emails}
    IN ListOfSet({email \in cleaned_emails : _is_valid_email(email)})

contact_keywords == {
    <<"c","o","n","t","a","c","t">>, <<"a","b","o","u","t">>, <<"t","e","a","m">>, <<"s","u","p","p","o","r","t">>, <<"h","e","l","p">>,
    <<"i","n","f","o">>, <<"r","e","a","c","h">>, <<"t","o","u","c","h">>, <<"c","o","n","n","e","c","t">> }

_extract_contact_pages(soup, base_url) ==
    LET links == AnchorsWithHref(soup)
    IN ListOfSet({urljoin(base_url, links[i].href) :
            i \in {j \in DOMAIN links :
                     \E keyword \in contact_keywords :
                        \/ Contains(Lower(links[j].href), keyword)
                        \/ Contains(Lower(Strip(links[j].text)), keyword)}})

\* the platform an href is filed under: the first whose pattern matches
MatchingPlatforms(href) ==
    {k \in DOMAIN social_platforms :
        ReMatch(social_patterns[social_platforms[k]], href, TRUE)}

\* the loop of lines 236-243 if it kept the first anchor of a platform
RECURSIVE SocialLoopFirst(_, _)
SocialLoopFirst(links, social_links) ==
    IF links = <<>> THEN social_links
    ELSE LET href == links[1].href
             hits == MatchingPlatforms(href)
         IN IF hits = {} THEN SocialLoopFirst(Tail(links), social_links)
            ELSE LET platform ==
                        social_platforms[CHOOSE k \in hits : \A m \in hits : k <= m]
                 IN IF platform \in DOMAIN social_links
                    THEN SocialLoopFirst(Tail(links), social_links)
                    ELSE SocialLoopFirst(Tail(links),
                                         DictUpdate(social_links, (platform :> href)))

RECURSIVE SocialLoop(_, _)
SocialLoop(links, social_links) ==
    IF links = <<>> THEN social_links
    ELSE LET href == links[1].href
             hits == MatchingPlatforms(href)
         IN IF hits = {} THEN SocialLoop(Tail(links), social_links)
            ELSE LET platform ==
                        social_platforms[CHOOSE k \in hits : \A m \in hits : k <= m]
                 IN SocialLoop(Tail(links),
                               DictUpdate(social_links, (platform :> href)))

_extract_social_links(soup) ==
    SocialLoop(AnchorsWithHref(soup), EmptyDict)

\* re.sub(r'[^\d+]', '', phone)
CleanPhone(phone) == SelectChars(phone, Digits \cup {"+"})

\* _extract_phone_numbers without the length test of line 260
_extract_phone_numbers_any_length(text) ==
    LET phone_numbers == UNION {Range(FindAll(phone_patterns[p], text, FALSE, FALSE)) :
                                   p \in DOMAIN phone_patterns}
    IN ListOfSet({Strip(phone) : phone \in phone_numbers})

_extract_phone_numbers(text) ==
    LET phone_numbers == UNION {Range(FindAll(phone_patterns[p], text, FALSE, FALSE)) :
                                   p \in DOMAIN phone_patterns}
    IN ListOfSet({Strip(phone) : phone \in {q \in phone_numbers : Len(CleanPhone(q)) >= 10}})

StreetSuffixes == {
    <<"S","t","r","e","e","t">>, <<"S","t">>, <<"A","v","e","n","u","e">>, <<"A","v","e">>, <<"R","o","a","d">>, <<"R","d">>, <<"B","o","u","l","e","v","a","r","d">>,
    <<"B","l","v","d">>, <<"D","r","i","v","e">>, <<"D","r">>, <<"L","a","n","e">>, <<"L","n">>, <<"W","a","y">>, <<"P","l","a","c","e">>, <<"P","l">> }

address_pattern ==
    {Plus(Digits) \o Plus(Whitespace)
        \o Plus(Letters \cup Digits \cup Whitespace \cup {",", ".", "-"})
        \o Lit(suffix) \o Star(Whitespace) \o Opt({","}) \o Star(Whitespace)
        \o Plus(Letters \cup Whitespace) \o Opt({","}) \o Star(Whitespace)
        \o Rep(UpperChars, 2, 2) \o Plus(Whitespace) \o Rep(Digits, 5, 5) \o zip4 :
        suffix \in StreetSuffixes,
        zip4 \in {<<>>, Lit(<<"-">>) \o Rep(Digits, 4, 4)}}

_extract_addresses(text) ==
    ListOfSet(Range(FindAll(address_pattern, text, TRUE, FALSE)))

\* weight * n / full without the min(1.0, ...)
WeightedTermUncapped(weight, n, full) == (weight * n) \div full

\* weight * min(1.0, n / full), in sixtieths
WeightedTerm(weight, n, full) == (weight * Min(full, n)) \div full

\* the sum of lines 315-342 if emails weighed 0.5
confidence_sum_heavy_emails(emails, contact_pages, social_links, phone_numbers, page_content) ==
    LET s1 == IF emails # <<>> THEN WeightedTerm(30, Len(emails), 3) ELSE 0
        s2 == s1 + (IF contact_pages # <<>> THEN WeightedTerm(12, Len(contact_pages), 2) ELSE 0)
        s3 == s2 + (IF DOMAIN social_links # {}
                    THEN WeightedTerm(12, Cardinality(DOMAIN social_links), 3) ELSE 0)
        s4 == s3 + (IF phone_numbers # <<>> THEN WeightedTerm(6, Len(phone_numbers), 2) ELSE 0)
        s5 == s4 + (IF page_content # None
                       /\ \E keyword \in {<<"c","o","n","t","a","c","t">>, <<"a","b","o","u","t">>, <<"t","e","a","m">>} :
                            Contains(Lower(page_content.url), keyword)
                    THEN 6 ELSE 0)
        s6 == s5 + (IF page_content # None /\ TextLen(page_content.content) > 500
                    THEN 3 ELSE 0)
    IN s6

\* score of lines 315-342, before the min of line 344
confidence_sum(emails, contact_pages, social_links, phone_numbers, page_content) ==
    LET s1 == IF emails # <<>> THEN WeightedTerm(24, Len(emails), 3) ELSE 0
        s2 == s1 + (IF contact_pages # <<>> THEN WeightedTerm(12, Len(contact_pages), 2) ELSE 0)
        s3 == s2 + (IF DOMAIN social_links # {}
                    THEN WeightedTerm(12, Cardinality(DOMAIN social_links), 3) ELSE 0)
        s4 == s3 + (IF phone_numbers # <<>> THEN WeightedTerm(6, Len(phone_numbers), 2) ELSE 0)
        s5 == s4 + (IF page_content # None
                       /\ \E keyword \in {<<"c","o","n","t","a","c","t">>, <<"a","b","o","u","t">>, <<"t","e","a","m">>} :
                            Contains(Lower(page_content.url), keyword)
                    THEN 6 ELSE 0)
        s6 == s5 + (IF page_content # None /\ TextLen(page_content.content) > 500
                    THEN 3 ELSE 0)
    IN s6

_calculate_confidence_score(emails, contact_pages, social_links, phone_numbers, page_content) ==
    Min(ScoreOne, confidence_sum(emails, contact_pages, social_links, phone_numbers, page_content))

\* re.findall(pattern, text) of line 186 raises TypeError on a page that
\* has markup and whose content is None
extract_contacts_from_page_raises(page_content) ==
    /\ page_content # None
    /\ page_content.html # <<>>
    /\ page_content.content = NoneText

\* extract_contacts_from_page if line 144 tested only "not page_content"
extract_contacts_from_page_none_only(page_content) ==
    IF page_content = None
    THEN ContactInfo(<<>>, <<>>, EmptyDict, <<>>, <<>>, <<0, 1>>, "empty_page", <<>>)
    ELSE LET soup == page_content.html
             emails == _extract_emails(page_content.content, soup)
             contact_pages == _extract_contact_pages(soup, page_content.url)
             social_links == _extract_social_links(soup)
             phone_numbers == _extract_phone_numbers(page_content.content)
             addresses == _extract_addresses(page_content.content)
             confidence == _calculate_confidence_score(
                               emails, contact_pages, social_links, phone_numbers,
                               page_content)
         IN ContactInfo(emails, contact_pages, social_links, phone_numbers, addresses,
                        <<confidence, 1>>, "page_analysis", <<page_content.url>>)

extract_contacts_from_page(page_content) ==
    IF page_content = None \/ page_content.html = <<>>
    THEN ContactInfo(<<>>, <<>>, EmptyDict, <<>>, <<>>, <<0, 1>>, "empty_page", <<>>)
    ELSE LET soup == page_content.html
             emails == _extract_emails(page_content.content, soup)
             contact_pages == _extract_contact_pages(soup, page_content.url)
             social_links == _extract_social_links(soup)
             phone_numbers == _extract_phone_numbers(page_content.content)
             addresses == _extract_addresses(page_content.content)
             confidence == _calculate_confidence_score(
                               emails, contact_pages, social_links, phone_numbers,
                               page_content)
         IN ContactInfo(emails, contact_pages, social_links, phone_numbers, addresses,
                        <<confidence, 1>>, "page_analysis", <<page_content.url>>)

(***************************************************************************)
(* ResultParser                                                            *)
(***************************************************************************)
stop_words == {
    <<"t","h","e">>, <<"a">>, <<"a","n">>, <<"a","n","d">>, <<"o","r">>, <<"b","u","t">>, <<"i","n">>, <<"o","n">>, <<"a","t">>, <<"t","o">>, <<"f","o","r">>,
    <<"o","f">>, <<"w","i","t","h">>, <<"b","y">>, <<"f","r","o","m">>, <<"u","p">>, <<"a","b","o","u","t">>, <<"i","n","t","o">>, <<"t","h","r","o","u","g","h">>, <<"d","u","r","i","n","g">>,
    <<"b","e","f","o","r","e">>, <<"a","f","t","e","r">>, <<"a","b","o","v","e">>, <<"b","e","l","o","w">>, <<"b","e","t","w","e","e","n">>, <<"a","m","o","n","g">>, <<"i","s">>, <<"a","r","e">>,
    <<"w","a","s">>, <<"w","e","r","e">>, <<"b","e">>, <<"b","e","e","n">>, <<"b","e","i","n","g">>, <<"h","a","v","e">>, <<"h","a","s">>, <<"h","a","d">>, <<"d","o">>, <<"d","o","e","s">>,
    <<"d","i","d">>, <<"w","i","l","l">>, <<"w","o","u","l","d">>, <<"c","o","u","l","d">>, <<"s","h","o","u","l","d">>, <<"m","a","y">>, <<"m","i","g","h","t">>, <<"m","u","s","t">>, <<"c","a","n">> }

\* the tiers in the order the dict holds them
quality_levels == <<"high", "medium", "low">>

quality_indicators == [quality_level \in Range(quality_levels) |->
    CASE quality_level = "high" -> {<<".","e","d","u">>, <<".","g","o","v">>, <<".","o","r","g">>}
      [] quality_level = "medium" -> {<<".","c","o","m">>, <<".","n","e","t">>}
      [] quality_level = "low" -> {<<".","t","k">>, <<".","m","l">>, <<".","g","a">>, <<".","c","f">>}]

\* re.sub(r'\s+', ' ', text): a run of whitespace leaves one space
CollapseWhitespace(s) ==
    Flatten([i \in DOMAIN s |->
                IF s[i] \notin Whitespace THEN <<s[i]>>
                ELSE IF i > 1 /\ s[i - 1] \in Whitespace THEN <<>>
                ELSE <<" ">>], 1, Len(s))

\* re.sub(r'[ch]{2,}', repl, text): a run of two or more ch leaves repl
CollapseRuns(s, ch, repl) ==
    Flatten([i \in DOMAIN s |->
                IF s[i] # ch THEN <<s[i]>>
                ELSE IF i > 1 /\ s[i - 1] = ch THEN <<>>
                ELSE IF i < Len(s) /\ s[i + 1] = ch THEN repl
                ELSE <<ch>>], 1, Len(s))

\* the characters re.sub(r'[^\w\s\-.,!?()"]', '', text) keeps
NormalizeSafelist ==
    WordChars \cup Whitespace \cup {"-", ".", ",", "!", "?", "(", ")", "\""}

_normalize_text(text) ==
    IF text = <<>> THEN <<>>
    ELSE LET t1 == CollapseWhitespace(Strip(text))
             t2 == SelectChars(t1, NormalizeSafelist)
             t3 == CollapseRuns(t2, ".", <<".",".",".">>)
             t4 == CollapseRuns(t3, "!", <<"!">>)
             t5 == CollapseRuns(t4, "?", <<"?">>)
         IN Strip(t5)

\* re.findall(r'\b\w+\b', text): the maximal runs of word characters
WordsOf(s) ==
    Flatten([i \in DOMAIN s |->
                IF s[i] \in WordChars /\ (i = Len(s) \/ s[i + 1] \notin WordChars)
                THEN <<SubSeq(s, CHOOSE j \in 1..i :
                                    /\ \A k \in j..i : s[k] \in WordChars
                                    /\ (j = 1 \/ s[j - 1] \notin WordChars), i)>>
                ELSE <<>>], 1, Len(s))

\* the number of times x occurs in a list
Count(s, x) == Cardinality({i \in DOMAIN s : s[i] = x})

\* sorted(items, key=count, reverse=True): stable, so equal counts keep
\* their order
RECURSIVE SortByCountDesc(_, _)
SortByCountDesc(items, all) ==
    IF items = <<>> THEN <<>>
    ELSE LET best == CHOOSE i \in DOMAIN items :
                        /\ \A j \in DOMAIN items : Count(all, items[j]) <= Count(all, items[i])
                        /\ \A j \in 1..(i - 1) : Count(all, items[j]) < Count(all, items[i])
         IN <<items[best]>>
            \o SortByCountDesc(SubSeq(items, 1, best - 1) \o DropFirst(items, best), all)

_extract_keywords(text, max_keywords) ==
    IF text = <<>> THEN <<>>
    ELSE LET words == WordsOf(Lower(text))
             keywords == FilterSeq(words, LAMBDA word : word \notin stop_words /\ Len(word) > 2)
             sorted_keywords == SortByCountDesc(Unique(keywords, {}), keywords)
         IN SliceTo(sorted_keywords, max_keywords)

\* domain.split('.')
RECURSIVE SplitOn(_, _, _)
SplitOn(s, sep, part) ==
    IF s = <<>> THEN <<part>>
    ELSE IF s[1] = sep THEN <<part>> \o SplitOn(Tail(s), sep, <<>>)
    ELSE SplitOn(Tail(s), sep, Append(part, s[1]))

\* sep.join(parts)
RECURSIVE Join(_, _)
Join(parts, sep) ==
    IF parts = <<>> THEN <<>>
    ELSE IF Len(parts) = 1 THEN parts[1]
    ELSE parts[1] \o sep \o Join(Tail(parts), sep)

\* lst[-n:] for n > 0
LastN(lst, n) == SubSeq(lst, Max(1, Len(lst) - n + 1), Len(lst))

\* {} of Python, the value _analyze_domain gives an empty domain
NoDomainInfo == [empty |-> TRUE]

_analyze_domain(domain) ==
    IF Falsy(domain) THEN NoDomainInfo
    ELSE LET domain_lower == Lower(domain)
             hits == {k \in DOMAIN quality_levels :
                        \E ext \in quality_indicators[quality_levels[k]] :
                            EndsWith(domain_lower, ext)}
             quality == IF hits = {} THEN "medium"
                        ELSE quality_levels[CHOOSE k \in hits : \A m \in hits : k <= m]
             labels == SplitOn(domain, ".", <<>>)
         IN [quality |-> quality,
             tld |-> IF Contains(domain, <<".">>) THEN labels[Len(labels)] ELSE <<>>,
             is_subdomain |-> Len(labels) > 2,
             main_domain |-> IF Contains(domain, <<".">>)
                             THEN Join(LastN(labels, 2), <<".">>) ELSE domain,
             length |-> Len(domain),
             has_numbers |-> \E i \in DOMAIN domain : domain[i] \in Digits,
             has_hyphens |-> Contains(domain, <<"-">>)]

english_indicators == <<<<"t","h","e">>, <<"a","n","d">>, <<"o","r">>, <<"i","s">>, <<"a","r","e">>, <<"w","a","s">>, <<"w","e","r","e">>, <<"a">>, <<"a","n">>>>

_detect_language(text) ==
    IF text = <<>> THEN "unknown"
    ELSE IF Cardinality({i \in DOMAIN english_indicators :
                            Contains(Lower(text), english_indicators[i])}) >= 2
    THEN "en"
    ELSE "unknown"

\* _calculate_relevance_score if the title test of line 226 left out its ends
_calculate_relevance_score_open_title(result) ==
    LET rank_score == Max(0, ScoreOne - (result.rank - 1) * 6)
        title_len == Len(result.title)
        c1 == 30 + (IF 30 < title_len /\ title_len < 100 THEN 12 ELSE 0)
        c2 == c1 + (IF ~Falsy(result.snippet) /\ Len(result.snippet) > 50 THEN 12 ELSE 0)
        content_score ==
            c2 + (IF ~\E spam_indicator \in {<<"s","p","a","m">>, <<"a","d","s">>, <<"c","l","i","c","k">>, <<"b","u","y">>} :
                        Contains(Lower(result.domain), spam_indicator)
                  THEN 6 ELSE 0)
    IN Min(ScoreOne, (rank_score + content_score) \div 2)

\* scores in sixtieths: 0.1 = 6, 0.2 = 12, 0.3 = 18, 0.5 = 30
_calculate_relevance_score(result) ==
    LET rank_score == Max(0, ScoreOne - (result.rank - 1) * 6)
        title_len == Len(result.title)
        c1 == 30 + (IF 30 <= title_len /\ title_len <= 100 THEN 12 ELSE 0)
        c2 == c1 + (IF ~Falsy(result.snippet) /\ Len(result.snippet) > 50 THEN 12 ELSE 0)
        content_score ==
            c2 + (IF ~\E spam_indicator \in {<<"s","p","a","m">>, <<"a","d","s">>, <<"c","l","i","c","k">>, <<"b","u","y">>} :
                        Contains(Lower(result.domain), spam_indicator)
                  THEN 6 ELSE 0)
    IN \* both terms are multiples of 0.1 = 6, so the half is exact
       Min(ScoreOne, (rank_score + content_score) \div 2)

\* len(result.title) of line 225 and result.domain.lower() of line 234
\* raise on None
_calculate_relevance_score_raises(result) ==
    result.title = NoneStr \/ result.domain = NoneStr

\* _calculate_quality_score without the clamp of line 264
_calculate_quality_score_unclamped(result, domain_info) ==
    LET domain_quality == IF domain_info = NoDomainInfo THEN "medium" ELSE domain_info.quality
        q1 == 30 + (IF domain_quality = "high" THEN 18
                    ELSE IF domain_quality = "medium" THEN 6 ELSE 0)
        q2 == q1 + (IF result.response_time < 2000 THEN 6
                    ELSE IF result.response_time > 5000 THEN 0 - 6 ELSE 0)
        q3 == q2 + (IF ~Falsy(result.title) /\ Len(result.title) > 10 THEN 6 ELSE 0)
    IN q3 + (IF ~Falsy(result.snippet) /\ Len(result.snippet) > 30 THEN 6 ELSE 0)

\* _calculate_quality_score if line 255 took 0.3 from a slow page
_calculate_quality_score_slow_costs_more(result, domain_info) ==
    LET domain_quality == IF domain_info = NoDomainInfo THEN "medium" ELSE domain_info.quality
        q1 == 30 + (IF domain_quality = "high" THEN 18
                    ELSE IF domain_quality = "medium" THEN 6 ELSE 0)
        q2 == q1 + (IF result.response_time < 2000 THEN 6
                    ELSE IF result.response_time > 5000 THEN 0 - 18 ELSE 0)
        q3 == q2 + (IF ~Falsy(result.title) /\ Len(result.title) > 10 THEN 6 ELSE 0)
        score == q3 + (IF ~Falsy(result.snippet) /\ Len(result.snippet) > 30 THEN 6 ELSE 0)
    IN Min(ScoreOne, Max(0, score))

_calculate_quality_score(result, domain_info) ==
    LET domain_quality == IF domain_info = NoDomainInfo THEN "medium" ELSE domain_info.quality
        q1 == 30 + (IF domain_quality = "high" THEN 18
                    ELSE IF domain_quality = "medium" THEN 6 ELSE 0)
        q2 == q1 + (IF result.response_time < 2000 THEN 6
                    ELSE IF result.response_time > 5000 THEN 0 - 6 ELSE 0)
        q3 == q2 + (IF ~Falsy(result.title) /\ Len(result.title) > 10 THEN 6 ELSE 0)
        score == q3 + (IF ~Falsy(result.snippet) /\ Len(result.snippet) > 30 THEN 6 ELSE 0)
    IN Min(ScoreOne, Max(0, score))

\* the fields of the ParsedResult dataclass; none has a default
ParsedResultFields == {
    "title", "url", "snippet", "rank", "domain",
    "normalized_title", "normalized_snippet", "domain_info", "keywords", "language",
    "crawl_timestamp", "response_time", "source_keyword",
    "relevance_score", "quality_score", "metadata" }

TypeError == [raised |-> "TypeError"]

\* ParsedResult(**kwargs): the generated __init__ takes exactly the fields
\* and raises TypeError on a missing or an unexpected keyword
NewParsedResult(kwargs) ==
    IF DOMAIN kwargs = ParsedResultFields THEN kwargs ELSE TypeError

parse_search_result(result) ==
    LET normalized_title == _normalize_text(result.title)
        normalized_snippet == _normalize_text(result.snippet)
        keywords == _extract_keywords(result.title \o <<" ">> \o result.snippet, 10)
        domain_info == _analyze_domain(result.domain)
        language == _detect_language(result.title \o <<" ">> \o result.snippet)
        relevance_score == _calculate_relevance_score(result)
        quality_score == _calculate_quality_score(result, domain_info)
        made == NewParsedResult(
                    [title |-> result.title,
                     url |-> result.url,
                     snippet |-> result.snippet,
                     rank |-> result.rank,
                     domain |-> result.domain,
                     normalized_title |-> normalized_title,
                     normalized_snippet |-> normalized_snippet,
                     domain_info |-> domain_info,
                     keywords |-> keywords,
                     language |-> language,
                     crawl_timestamp |-> result.crawl_timestamp,
                     response_time |-> result.response_time,
                     source_keyword |-> result.result_metadata.keyword,
                     relevance_score |-> relevance_score,
                     quality_score |-> quality_score,
                     result_metadata |-> result.result_metadata])
    IN \* except Exception: log and return None
       IF made = TypeError THEN None ELSE made

\* the positions of the results deduplicate_results keeps, in order
RECURSIVE DedupLoop(_, _, _, _)
DedupLoop(results, i, seen_urls, seen_titles) ==
    IF i > Len(results) THEN <<>>
    ELSE LET result == results[i]
             title_key == Lower(_normalize_text(result.title))
         IN IF result.url \in seen_urls
            THEN DedupLoop(results, i + 1, seen_urls, seen_titles)
            ELSE IF title_key \in seen_titles
            THEN DedupLoop(results, i + 1, seen_urls, seen_titles)
            ELSE <<i>> \o DedupLoop(results, i + 1, seen_urls \cup {result.url},
                                    seen_titles \cup {title_key})

\* deduplicate_results if line 278 took the titles as they are
RECURSIVE DedupLoopRawTitle(_, _, _, _)
DedupLoopRawTitle(results, i, seen_urls, seen_titles) ==
    IF i > Len(results) THEN <<>>
    ELSE LET result == results[i]
         IN IF result.url \in seen_urls \/ result.title \in seen_titles
            THEN DedupLoopRawTitle(results, i + 1, seen_urls, seen_titles)
            ELSE <<i>> \o DedupLoopRawTitle(results, i + 1, seen_urls \cup {result.url},
                                            seen_titles \cup {result.title})

deduplicate_results_raw_title(results) ==
    LET kept == DedupLoopRawTitle(results, 1, {}, {})
    IN [k \in DOMAIN kept |-> results[kept[k]]]

deduplicate_results(results) ==
    LET kept == DedupLoop(results, 1, {}, {})
    IN [k \in DOMAIN kept |-> results[kept[k]]]


(***************************************************************************)
(* ResultParser: filter_results, sort_results, parse_search_results        *)
(***************************************************************************)
\* filter_results if line 295 read "or"
filter_results_either(results, min_quality_score, min_relevance_score) ==
    LET keep == {i \in DOMAIN results :
                    \/ results[i].quality_score >= min_quality_score
                    \/ results[i].relevance_score >= min_relevance_score}
    IN Flatten([i \in DOMAIN results |-> IF i \in keep THEN <<results[i]>> ELSE <<>>],
               1, Len(results))

filter_results(results, min_quality_score, min_relevance_score) ==
    LET keep == {i \in DOMAIN results :
                    /\ results[i].quality_score >= min_quality_score
                    /\ results[i].relevance_score >= min_relevance_score}
    IN Flatten([i \in DOMAIN results |-> IF i \in keep THEN <<results[i]>> ELSE <<>>],
               1, Len(results))

\* the characters of the model's domains in code point order
CodePointOrder == <<"-", ".">> \o DigitSeq \o UpperSeq \o LowerSeq

Ord(c) == CHOOSE i \in DOMAIN CodePointOrder : CodePointOrder[i] = c

\* a < b for two str
StrLess(a, b) ==
    \/ \E i \in 1..Min(Len(a), Len(b)) :
          /\ \A j \in 1..(i - 1) : a[j] = b[j]
          /\ Ord(a[i]) < Ord(b[i])
    \/ /\ Len(a) < Len(b)
       /\ \A j \in 1..Len(a) : a[j] = b[j]

\* x goes before y in the order of sort_by
SortsBefore(x, y, sort_by) ==
    CASE sort_by = "relevance" -> x.relevance_score > y.relevance_score
      [] sort_by = "quality" -> x.quality_score > y.quality_score
      [] sort_by = "rank" -> x.rank < y.rank
      [] sort_by = "domain" -> StrLess(x.domain, y.domain)

\* sorted() is stable: x goes in before the first item it sorts before
InsertSorted(done, x, sort_by) ==
    LET later == {i \in DOMAIN done : SortsBefore(x, done[i], sort_by)}
        at == IF later = {} THEN Len(done) + 1
              ELSE CHOOSE i \in later : \A j \in later : i <= j
    IN SubSeq(done, 1, at - 1) \o <<x>> \o SubSeq(done, at, Len(done))

RECURSIVE Sorted(_, _, _)
Sorted(results, n, sort_by) ==
    IF n = 0 THEN <<>>
    ELSE InsertSorted(Sorted(results, n - 1, sort_by), results[n], sort_by)

\* sort_results if the rank branch of line 310 also had reverse=True
sort_results_rank_reversed(results, sort_by) ==
    IF sort_by = "rank"
    THEN LET up == Sorted(results, Len(results), sort_by)
         IN [i \in DOMAIN up |-> up[Len(up) + 1 - i]]
    ELSE IF sort_by \in {"relevance", "quality", "domain"}
    THEN Sorted(results, Len(results), sort_by)
    ELSE results

sort_results(results, sort_by) ==
    IF sort_by \in {"relevance", "quality", "rank", "domain"}
    THEN Sorted(results, Len(results), sort_by)
    ELSE results

\* parse_search_results without the "if parsed" of line 76
parse_search_results_unchecked(results) ==
    [i \in DOMAIN results |-> parse_search_result(results[i])]

\* lines 73-79: parse_search_result handles its own exceptions, so the
\* handler of line 78 has nothing to catch
parse_search_results(results) ==
    LET parsed == [i \in DOMAIN results |-> parse_search_result(results[i])]
    IN Flatten([i \in DOMAIN results |-> IF parsed[i] # None THEN <<parsed[i]>> ELSE <<>>],
               1, Len(results))

(***************************************************************************)
(* page_fetcher.py: PageFetcher.fetch_page                                 *)
(***************************************************************************)
\* the PageContent dataclass with all its fields but the timestamp
FetchedPageContent(url, title, content, html, status_code, response_time, headers, error) ==
    [url |-> url, title |-> title, content |-> content, html |-> html,
     status_code |-> status_code, response_time |-> response_time,
     headers |-> headers, error |-> error]

\* retries = retries or self.config.crawler.max_retries; an absent
\* argument is <<>>, a given one <<n>>
RetriesOr(retries_arg, max_retries) ==
    IF retries_arg = <<>> \/ retries_arg[1] = 0 THEN max_retries ELSE retries_arg[1]

\* soup.find('title'), get_text(strip=True), or ""
TitleOf(html) ==
    IF \E i \in DOMAIN html : html[i].tag = "title"
    THEN Strip(html[CHOOSE i \in DOMAIN html :
                        /\ html[i].tag = "title"
                        /\ \A j \in 1..(i - 1) : html[j].tag # "title"].text)
    ELSE <<>>

\* response.headers.get('content-type', '')
HeaderGet(headers, name) ==
    IF name \in DOMAIN headers THEN headers[name] ELSE <<>>

\* _parse_page_content: None for a status of 400 and more, for content
\* that is not text/html and when parsing raises
_parse_page_content(response, url, response_time) ==
    IF response.status_code >= 400 THEN None
    ELSE IF ~Contains(Lower(HeaderGet(response.headers, "content-type")), <<"t","e","x","t","/","h","t","m","l">>)
    THEN None
    ELSE IF ~response.parses THEN None
    ELSE FetchedPageContent(url, TitleOf(response.text.html), response.text.content,
                            response.text.html, response.status_code, response_time,
                            response.headers, NoneStr)

\* the except clauses of fetch_page if the last one were missing
fetch_page_except_requests_only(exc) ==
    IF exc \in {"Timeout", "ConnectionError", "RequestException"} THEN "retry" ELSE "raise"

\* the except clauses of lines 78-86: the exceptions of requests go on to
\* the next attempt, every other Exception breaks out of the loop
fetch_page_except(exc) ==
    IF exc \in {"Timeout", "ConnectionError", "RequestException"} THEN "retry" ELSE "break"

\* lines 93-103
fetch_page_error_result(url) ==
    FetchedPageContent(url, <<>>, <<>>, <<>>, 0, 0, EmptyDict,
                       <<"F","a","i","l","e","d"," ","t","o"," ","f","e","t","c","h"," ","a","f","t","e","r"," ","r","e","t","r","i","e","s">>)

(***************************************************************************)
(* email/smtp_client.py: SMTPClient and EmailServiceManager                *)
(***************************************************************************)
\* dict.get(key, default)
DictGet(d, key, default) == IF key \in DOMAIN d THEN d[key] ELSE default

\* getattr(self.config.email, 'smtp', {}): the attribute if the email
\* configuration has one
SmtpSettings(email_config) ==
    IF email_config.has_smtp THEN email_config.smtp ELSE [k \in {} |-> ""]

\* SMTPClient.__init__: the import of line 39 makes os a local of the whole
\* function, so os.getenv of line 34, reached when the configured password
\* is empty, raises UnboundLocalError
SMTPClient_init(email_config) ==
    LET username == DictGet(SmtpSettings(email_config), "username", "")
        password == DictGet(SmtpSettings(email_config), "password", "")
    IN IF password = "" THEN [raised |-> "UnboundLocalError"]
       ELSE [username |-> username, password |-> password,
             _configured |-> ~(username = "" \/ password = "")]

\* SMTPClient.send_email: the credentials test, then the server, whose
\* exceptions are all turned into results
SMTPClient_send_email(client, server) ==
    IF client.username = "" \/ client.password = ""
    THEN [success |-> FALSE, error |-> "SMTP credentials not configured"]
    ELSE CASE server = "ok" -> [success |-> TRUE, method |-> "smtp"]
           [] server = "SMTPAuthenticationError" ->
                 [success |-> FALSE, error |-> "SMTP authentication failed",
                  error_code |-> "auth_failed"]
           [] server = "SMTPRecipientsRefused" ->
                 [success |-> FALSE, error |-> "SMTP recipients refused",
                  error_code |-> "recipients_refused"]
           [] OTHER -> [success |-> FALSE, error |-> "SMTP send failed"]

\* EmailServiceManager.__init__, lines 226-240: the service of the primary
\* provider, None when its constructor raises
ServiceOrNone(primary_service, provider, constructs) ==
    IF primary_service = provider /\ constructs THEN [service |-> provider] ELSE None

\* lines 242-250: the SMTP client, None for SendGrid and when the
\* constructor raises
SmtpClientOrNone(primary_service, email_config) ==
    IF primary_service # "sendgrid"
    THEN IF "raised" \in DOMAIN SMTPClient_init(email_config)
         THEN None
         ELSE SMTPClient_init(email_config)
    ELSE None

\* lines 258 and 275: the service send_email tries first
PrimaryToTry(primary_service, sendgrid_service, gmail_service) ==
    IF primary_service = "sendgrid" /\ sendgrid_service # None THEN "sendgrid"
    ELSE IF primary_service = "gmail_api" /\ gmail_service # None THEN "gmail_api"
    ELSE "none"

\* lines 299-304
AllFailed(primary_service) ==
    [success |-> FALSE, error |-> "All email services failed",
     primary_service |-> primary_service]

(***************************************************************************)
(* email/gmail_api.py: GmailRateLimiter and GmailService.send_email        *)
(***************************************************************************)
\* the test of line 167 if it let the counter reach the limit and one more
daily_limit_reached_strictly(sent, limit) == sent > limit

\* line 167: self.sent_today >= self.daily_limit
daily_limit_reached(sent, limit) == sent >= limit

\* lines 161-164: the counter after the reset of a new day
sent_after_reset(sent, reset_day, day) == IF day > reset_day THEN 0 ELSE sent

\* lines 161-164: last_reset after the reset of a new day
reset_day_after(reset_day, day) == IF day > reset_day THEN day ELSE reset_day

\* can_send_email, lines 158-171, on the counter already reset
can_send_email(sent, reset_day, day, limit) ==
    ~daily_limit_reached(sent_after_reset(sent, reset_day, day), limit)

\* whether an outcome of the try block of send_email got as far as the
\* execute() of line 242
ContactsApi(outcome) == outcome \in {"sent", "HttpError"}

\* the result of the try block of send_email, lines 231-271
GmailResult(outcome) ==
    CASE outcome = "sent" -> [success |-> TRUE, message_id |-> "id"]
      [] outcome = "HttpError" -> [success |-> FALSE, error |-> "Gmail API error"]
      [] OTHER -> [success |-> FALSE, error |-> "Failed to send email"]

(***************************************************************************)
(* crawler/google_serp.py: GoogleSERPCrawler.crawl_keyword                 *)
(***************************************************************************)
\* the decimal digits of a natural number, as str(n) writes them
RECURSIVE IntToStr(_)
IntToStr(n) ==
    IF n < 10 THEN <<DigitSeq[n + 1]>> ELSE IntToStr(n \div 10) \o <<DigitSeq[(n % 10) + 1]>>

\* urllib.parse.quote_plus on one character: unreserved characters stay,
\* a space becomes "+", the rest is percent-encoded
QuotePlusChar(c) ==
    IF c \in Letters \cup Digits \cup {"_", ".", "-", "~"} THEN <<c>>
    ELSE IF c = " " THEN <<"+">>
    ELSE CASE c = "&" -> <<"%","2","6">>
           [] c = "+" -> <<"%","2","B">>
           [] c = "/" -> <<"%","2","F">>
           [] c = "?" -> <<"%","3","F">>
           [] c = "=" -> <<"%","3","D">>
           [] OTHER -> <<"%","2","5">>

quote_plus(s) == Flatten([i \in DOMAIN s |-> QuotePlusChar(s[i])], 1, Len(s))

\* lines 143-144 and 192-193
SearchUrl(keyword, max_results) ==
    <<"h","t","t","p","s",":","/","/","w","w","w",".","g","o","o","g","l","e",".","c","o","m","/","s","e","a","r","c","h","?","q","=">> \o quote_plus(keyword)
        \o <<"&","n","u","m","=">> \o IntToStr(max_results)

\* RobotsTxtChecker.can_fetch: what robots.txt says, and TRUE when it
\* cannot be read or the check itself fails
RobotsCanFetch(robots) ==
    CASE robots = "allows" -> TRUE
      [] robots = "disallows" -> FALSE
      [] OTHER -> TRUE

\* the SearchResult of lines 251-264
CrawledResult(title, url, snippet, rank, domain, response_time, keyword, mode) ==
    [title |-> title, url |-> url, snippet |-> snippet, rank |-> rank,
     domain |-> domain, crawl_timestamp |-> 0, response_time |-> response_time,
     result_metadata |-> [keyword |-> keyword, search_engine |-> "google",
                          crawl_mode |-> mode]]

\* lines 233-241: a container without title or link, or with a link back
\* to the search engine, gives no result
ContainerSkipped(container) ==
    \/ ~container.h3 \/ ~container.a
    \/ container.href = <<>>
    \/ StartsWith(container.href, <<"/","s","e","a","r","c","h">>)
    \/ Contains(container.href, <<"g","o","o","g","l","e",".","c","o","m">>)

\* _parse_google_results: rank is the position of the container
_parse_google_results(containers, keyword, response_time, mode) ==
    Flatten([rank \in DOMAIN containers |->
                IF ContainerSkipped(containers[rank]) THEN <<>>
                ELSE << CrawledResult(Strip(containers[rank].title),
                                      containers[rank].href,
                                      Strip(containers[rank].snippet), rank,
                                      UrlParse(containers[rank].href).netloc,
                                      response_time, keyword, mode) >>],
            1, Len(containers))

\* what a search answered with: the results of the page, none when the
\* request or the page raised
ResultsOfOutcome(outcome, keyword, mode) ==
    IF outcome.kind = "page"
    THEN _parse_google_results(outcome.containers, keyword, outcome.elapsed, mode)
    ELSE <<>>

\* _crawl_with_requests: the results and the URLs session.get was called for
_crawl_with_requests(keyword, max_results, respect_robots_txt, robots, outcome) ==
    IF respect_robots_txt /\ ~RobotsCanFetch(robots)
    THEN [requested |-> <<>>, results |-> <<>>]
    ELSE [requested |-> << SearchUrl(keyword, max_results) >>,
          results |-> ResultsOfOutcome(outcome, keyword, "light")]

\* _crawl_with_browser: the results and the URLs page.goto was called for;
\* robots.txt is not looked at
_crawl_with_browser(keyword, max_results, respect_robots_txt, robots, outcome) ==
    [requested |-> << SearchUrl(keyword, max_results) >>,
     results |-> ResultsOfOutcome(outcome, keyword, "browser")]

\* crawl_keyword, lines 130-135
crawl_keyword(mode, keyword, max_results, respect_robots_txt, robots, outcome) ==
    IF mode = "browser"
    THEN _crawl_with_browser(keyword, max_results, respect_robots_txt, robots, outcome)
    ELSE _crawl_with_requests(keyword, max_results, respect_robots_txt, robots, outcome)
(***************************************************************************)
(* Inputs: the pages the fetcher can return and the domains crawled        *)
(***************************************************************************)
\* bound: the longest candidate list a crawl of the model walks
MaxFetches == 2

\* an element of the parsed markup
Element(tag, has_href, href, text) ==
    [tag |-> tag, has_href |-> has_href, href |-> href, text |-> text]

\* a run of n characters that no pattern matches
Filler(n) == [i \in 1..n |-> "~"]

\* page bodies [html, content]: html is the element list BeautifulSoup
\* yields (empty for empty markup), content the text as its segments
Bodies == <<
    [html |-> << Element("a", TRUE, <<"m","a","i","l","t","o",":","S","a","l","e","s","@","C","o","r","p",".","i","o","?","s","u","b","j","e","c","t","=","H","i">>, <<"E","m","a","i","l"," ","u","s">>),
                 Element("a", TRUE, <<"h","t","t","p","s",":","/","/","t","w","i","t","t","e","r",".","c","o","m","/","f","i","r","s","t">>, <<"T","w","i","t","t","e","r">>),
                 Element("a", TRUE, <<"h","t","t","p","s",":","/","/","t","w","i","t","t","e","r",".","c","o","m","/","s","e","c","o","n","d">>, <<"A","l","s","o"," ","T","w","i","t","t","e","r">>),
                 Element("a", TRUE, <<"/","c","o","n","t","a","c","t","-","u","s">>, <<"C","o","n","t","a","c","t">>),
                 Element("a", FALSE, <<>>, <<"T","o","p">>),
                 Element("p", FALSE, <<>>, <<"W","e","l","c","o","m","e">>) >>,
     content |-> << <<"I","n","f","o","@","S","i","t","e",".","o","r","g">>, <<"i","n","f","o","@","s","i","t","e",".","o","r","g">>, <<"n","o","r","e","p","l","y","@","s","i","t","e",".","o","r","g">>,
                    <<"5","5","5","-","1","2","3","-","4","5","6","7">>, <<"1","2","3">> >>],
    [html |-> << Element("a", TRUE, <<"h","t","t","p","s",":","/","/","w","w","w",".","l","i","n","k","e","d","i","n",".","c","o","m","/","c","o","m","p","a","n","y","/","a","c","m","e">>, <<"L","i","n","k","e","d","I","n">>),
                 Element("a", TRUE, <<"h","t","t","p","s",":","/","/","t","w","i","t","t","e","r",".","c","o","m","/","t","h","i","r","d">>, <<"T","w","i","t","t","e","r">>),
                 Element("a", TRUE, <<"M","A","I","L","T","O",":","B","o","s","s","@","C","o","r","p",".","i","o">>, <<"B","o","s","s">>),
                 Element("a", TRUE, <<"a","b","o","u","t",".","h","t","m","l">>, <<"A","b","o","u","t">>),
                 Element("a", TRUE, <<"m","a","i","l","t","o",":","i","n","f","o","@","s","i","t","e",".","o","r","g">>, <<"M","a","i","l">>) >>,
     content |-> << <<"b","o","b"," ","[","a","t","]"," ","s","i","t","e"," ","[","d","o","t","]"," ","o","r","g">>, <<"b","o","b"," ","@"," ","s","i","t","e"," ","."," ","o","r","g">>, <<"a","@","b",".","c","|","d">>,
                    <<"u","s","e","r","@","e","x","a","m","p","l","e",".","c","o","m">>, <<"+","4","4"," ","2","0"," ","7","9","4","6"," ","0","9","5","8">>,
                    <<"1","2"," ","M","a","i","n"," ","S","t",","," ","S","p","r","i","n","g","f","i","e","l","d",","," ","I","L"," ","6","2","7","0","4">>, Filler(510) >>],
    [html |-> <<>>,
     content |-> << <<"c","e","o","@","c","o","r","p",".","i","o">> >>] >>

\* pages a caller builds by hand: markup without text, and markup with
\* None for the text
HandMadeBodies == <<
    [html |-> << Element("a", TRUE, <<"/","c","o","n","t","a","c","t">>, <<"C","o","n","t","a","c","t">>) >>, content |-> <<>>],
    [html |-> << Element("a", TRUE, <<"/","c","o","n","t","a","c","t">>, <<"C","o","n","t","a","c","t">>) >>, content |-> NoneText] >>

PageContent(url, title, content, html, status_code, error) ==
    [url |-> url, title |-> title, content |-> content, html |-> html,
     status_code |-> status_code, error |-> error]

\* what one fetch_page call can do: raise, return None, return the error
\* page of its last line, or return a page
Statuses == {200, 203}

\* exceptions a fetcher can raise, all of them subclasses of Exception
FetchErrors == {"Timeout", "RuntimeError"}

FetchOutcomes ==
    {[kind |-> "raise", exc |-> e, status_code |-> 0, body |-> 0] : e \in FetchErrors}
    \cup {[kind |-> k, exc |-> "", status_code |-> 0, body |-> 0] : k \in {"none", "error"}}
    \cup {[kind |-> "page", exc |-> "", status_code |-> s, body |-> b] :
            s \in Statuses, b \in DOMAIN Bodies}

\* the value fetch_page hands back for an outcome that returns
PageOf(url, outcome) ==
    CASE outcome.kind = "none" -> None
      [] outcome.kind = "error" ->
            PageContent(url, <<>>, <<>>, <<>>, 0, <<"F","a","i","l","e","d"," ","t","o"," ","f","e","t","c","h"," ","a","f","t","e","r"," ","r","e","t","r","i","e","s">>)
      [] outcome.kind = "page" ->
            PageContent(url, <<>>, Bodies[outcome.body].content,
                        Bodies[outcome.body].html, outcome.status_code, NoneStr)
      [] outcome.kind = "handmade" ->
            PageContent(url, <<>>, HandMadeBodies[outcome.body].content,
                        HandMadeBodies[outcome.body].html, outcome.status_code, NoneStr)

Domains == { <<"s","i","t","e",".","o","r","g">>, <<"h","t","t","p","b","i","n",".","o","r","g">>, <<"h","t","t","p",":","/","/","c","o","r","p",".","i","o">> }

\* the candidate list of a domain before it is cut (lines 80-95)
base_url(domain) ==
    IF ~StartsWith(domain, <<"h","t","t","p">>) THEN <<"h","t","t","p","s",":","/","/">> \o domain ELSE domain

CandidateUrls(domain) ==
    <<base_url(domain)>>
        \o [i \in DOMAIN contact_page_paths |-> urljoin(base_url(domain), contact_page_paths[i])]

urls_to_check_of(domain, max_pages) == SliceTo(CandidateUrls(domain), max_pages)

\* max_pages values whose crawl stays within the bound
MaxPagesInputs ==
    {m \in (0 - Len(contact_page_paths) - 1)..(MaxFetches + 1) :
        Len(SliceTo([i \in 1..(Len(contact_page_paths) + 1) |-> i], m)) <= MaxFetches}

\* extract_contacts_from_page on every page a fetch of the model can return
AllCandidateUrls ==
    UNION {Range(SliceTo(CandidateUrls(d), MaxFetches)) : d \in Domains}

PageOutcomes == {o \in FetchOutcomes : o.kind \in {"error", "page"}}

PageSignals ==
    Tabulate(AllCandidateUrls \X PageOutcomes,
             LAMBDA k : extract_contacts_from_page(PageOf(k[1], k[2])))

(***************************************************************************)
(* Inputs: search results                                                  *)
(***************************************************************************)
\* bound: the longest result list handed to deduplicate_results
MaxResults == 3

\* titles of 0, 5, 13, 36 and 101 characters
Titles == {
    <<>>,
    <<"S","h","o","r","t">>,
    <<"H","e","l","l","o"," "," ","W","o","r","l","d","!">>,
    <<"L","e","a","r","n"," ","P","y","t","h","o","n",":"," ","t","h","e"," ","c","o","m","p","l","e","t","e"," ","g","u","i","d","e"," ","(","2",")">>,
    <<"L","e","a","r","n"," ","P","y","t","h","o","n",":"," ","t","h","e"," ","c","o","m","p","l","e","t","e"," ","g","u","i","d","e"," ","(","2",")">> \o <<" ","a","n","d"," ","m","o","r","e",","," ","a","n","d"," ","m","o","r","e",","," ","a","n","d"," ","m","o","r","e",","," ","a","n","d"," ","m","o","r","e",","," ","a","n","d"," ","m","o","r","e",","," ","a","n","d"," ","m","o","r","e",","," ","a","n","d"," ","m","o","r">> }

\* snippets of 0, 35 and 62 characters
Snippets == {
    <<>>,
    <<"T","h","i","s"," ","i","s"," ","a"," ","t","e","s","t"," ","s","n","i","p","p","e","t"," ","f","o","r"," ","r","e","s","u","l","t"," ","1">>,
    <<"T","h","e"," ","g","u","i","d","e"," ","i","s"," ","l","o","n","g"," ","a","n","d"," ","t","h","e"," ","e","x","a","m","p","l","e","s"," ","a","r","e"," ","m","a","n","y",".",".","."," ","r","e","a","d"," ","o","n","!","!"," ","N","o","w","?","?">> }

\* rank is 1-based; -1 is what a careless caller can pass
Ranks == {0 - 1, 1, 2, 11, 12}

ResultDomains == { <<>>, <<"e","x","a","m","p","l","e",".","e","d","u">>, <<"b","l","o","g",".","e","x","a","m","p","l","e",".","c","o","m">>, <<"B","u","y","-","N","o","w",".","N","E","T">>, <<"s","p","a","m","a","d","s",".","t","k">> }

\* response times in milliseconds
ResponseTimes == {1500, 3000, 6000}

SearchResult(title, url, snippet, rank, domain, response_time) ==
    [title |-> title, url |-> url, snippet |-> snippet, rank |-> rank,
     domain |-> domain, crawl_timestamp |-> 0, response_time |-> response_time,
     result_metadata |-> [keyword |-> <<"t","e","s","t">>]]

SearchResults ==
    {SearchResult(t, <<"h","t","t","p","s",":","/","/","e","x","a","m","p","l","e",".","c","o","m","/","1">>, s, r, d, rt) :
        t \in Titles, s \in Snippets, r \in Ranks, d \in ResultDomains, rt \in ResponseTimes}

\* results with None for the title, the snippet or the domain
MalformedResults ==
    {SearchResult(t, <<"h","t","t","p","s",":","/","/","e","x","a","m","p","l","e",".","c","o","m","/","1">>, s, 1, d, 1500) :
        t \in {NoneStr, <<"S","h","o","r","t">>},
        s \in {NoneStr, <<"T","h","i","s"," ","i","s"," ","a"," ","t","e","s","t"," ","s","n","i","p","p","e","t"," ","f","o","r"," ","r","e","s","u","l","t"," ","1">>},
        d \in {NoneStr, <<"e","x","a","m","p","l","e",".","e","d","u">>}}
    \ SearchResults

\* results at the ends of the ranges the scores test: titles of 29, 30, 50,
\* 100 and 101 characters, snippets of 50, 51 and 80, ranks 1, 10 and 11
TextOf(n) == [i \in 1..n |-> "x"]

BoundaryResults ==
    {SearchResult(TextOf(t), <<"h","t","t","p","s",":","/","/","e","x","a","m","p","l","e",".","c","o","m","/","1">>, TextOf(s), r, <<"e","x","a","m","p","l","e",".","e","d","u">>, 1500) :
        t \in {29, 30, 50, 100, 101}, s \in {50, 51, 80}, r \in {1, 10, 11}}

\* the results the scoring functions are called with
ScoredInputs == SearchResults \cup MalformedResults \cup BoundaryResults

\* parsed results as deduplicate_results reads them: url, title, and the
\* rank, which is the position in the result set
DedupUrls == { <<"h","t","t","p","s",":","/","/","a",".","o","r","g","/","1">>, <<"h","t","t","p","s",":","/","/","b",".","o","r","g","/","2">> }

DedupTitles == { <<"H","e","l","l","o"," ","W","o","r","l","d">>, <<"h","e","l","l","o"," "," "," ","w","o","r","l","d">>, <<"O","t","h","e","r","!">> }

ResultLists ==
    UNION {{[i \in 1..n |-> [url |-> f[i][1], title |-> f[i][2], rank |-> i]] :
                f \in [1..n -> DedupUrls \X DedupTitles]} : n \in 0..MaxResults}


\* parsed results as filter_results and sort_results read them: rank,
\* domain and the two scores
ScoredResult(rank, domain, relevance_score, quality_score) ==
    [rank |-> rank, domain |-> domain, relevance_score |-> relevance_score,
     quality_score |-> quality_score]

ScoredResults == {
    ScoredResult(2, <<"b",".","o","r","g">>, 48, 30),
    ScoredResult(1, <<"a",".","o","r","g">>, 48, ScoreOne),
    ScoredResult(3, <<"B",".","o","r","g">>, ScoreOne, 18),
    ScoredResult(1, <<"a",".","o","r">>, 12, 17) }

ScoredLists ==
    UNION {[1..n -> ScoredResults] : n \in 0..MaxResults}

\* thresholds: 0.0, the defaults 0.3 and 0.2, 1.0 and 1.1
MinQualityScores == {0, 18, ScoreOne, 66}

MinRelevanceScores == {12, ScoreOne}

\* sort keys, one of them unknown
SortKeys == {"relevance", "quality", "rank", "domain", "title"}

\* the result sets handed to parse_search_results
BatchItems == {
    SearchResult(<<"S","h","o","r","t">>, <<"h","t","t","p","s",":","/","/","e","x","a","m","p","l","e",".","c","o","m","/","1">>,
                 <<"T","h","i","s"," ","i","s"," ","a"," ","t","e","s","t"," ","s","n","i","p","p","e","t"," ","f","o","r"," ","r","e","s","u","l","t"," ","1">>, 1, <<"e","x","a","m","p","l","e",".","e","d","u">>, 1500),
    SearchResult(<<"H","e","l","l","o"," "," ","W","o","r","l","d","!">>, <<"h","t","t","p","s",":","/","/","e","x","a","m","p","l","e",".","c","o","m","/","1">>, <<>>, 2,
                 <<"b","l","o","g",".","e","x","a","m","p","l","e",".","c","o","m">>, 3000),
    SearchResult(<<>>, <<"h","t","t","p","s",":","/","/","e","x","a","m","p","l","e",".","c","o","m","/","1">>, <<>>, 11, <<>>, 6000) }

Batches == UNION {[1..n -> BatchItems] : n \in 0..MaxResults}

\* texts handed to _extract_phone_numbers, each given as the segments the
\* patterns can match: "Call 555-123-4567 or 123", "fax +123456789.",
\* "+44 20 7946 0958 12345", "tel:<tab>(555) 123-4567 x"
PhoneTexts == {
    <<>>,
    << <<"C","a","l","l">>, <<" ","5","5","5","-","1","2","3","-","4","5","6","7">>, <<"5","5","5","-","1","2","3","-","4","5","6","7">>, <<"o","r">>, <<"1","2","3">> >>,
    << <<"f","a","x">>, <<"+","1","2","3","4","5","6","7","8","9">> >>,
    << <<"+","4","4"," ","2","0"," ","7","9","4","6"," ","0","9","5","8">>, <<"1","2","3","4","5">> >>,
    << <<"\t">> \o <<"(","5","5","5",")"," ","1","2","3","-","4","5","6","7">>, <<"1","2","3","-","4","5","6","7">>, <<"x">> >> }

\* inputs of fetch_page
MaxRetries == 2

RetriesInputs == {<<>>} \cup {<<n>> : n \in (0 - 1)..MaxRetries}

\* self.config.crawler.max_retries
ConfigMaxRetries == {0, 1}

FetchUrls == { <<"h","t","t","p","s",":","/","/","s","i","t","e",".","o","r","g","/","c","o","n","t","a","c","t">> }

\* response.text as its elements and its text
ResponseBodies == <<
    Bodies[1],
    [html |-> << Element("title", FALSE, <<>>, <<" ","H","o","m","e"," ">>),
                 Element("p", FALSE, <<>>, <<"W","e","l","c","o","m","e">>) >>,
     content |-> << <<"H","o","m","e">>, <<"W","e","l","c","o","m","e">> >>],
    [html |-> <<>>, content |-> <<>>] >>

ContentTypes == [html |-> (("content-type") :> <<"T","e","x","t","/","H","T","M","L",";"," ","c","h","a","r","s","e","t","=","u","t","f","-","8">>),
                 pdf |-> (("content-type") :> <<"a","p","p","l","i","c","a","t","i","o","n","/","p","d","f">>),
                 absent |-> EmptyDict]

GetRaises(exc) ==
    [kind |-> "raise", exc |-> exc, status_code |-> 0, headers |-> EmptyDict,
     text |-> ResponseBodies[3], parses |-> TRUE, elapsed |-> 0]

Response(status_code, headers, body, parses, elapsed) ==
    [kind |-> "response", exc |-> "", status_code |-> status_code, headers |-> headers,
     text |-> ResponseBodies[body], parses |-> parses, elapsed |-> elapsed]

\* what one self.session.get can do: raise or hand back a response
GetOutcomes ==
    {GetRaises(exc) : exc \in {"Timeout", "ConnectionError", "RequestException", "ValueError"}}
    \cup { Response(400, ContentTypes.html, 1, TRUE, 7),
           Response(200, ContentTypes.pdf, 1, TRUE, 7),
           Response(200, ContentTypes.absent, 1, TRUE, 7),
           Response(200, ContentTypes.html, 1, FALSE, 7),
           Response(200, ContentTypes.html, 2, TRUE, 7),
           Response(399, ContentTypes.html, 1, TRUE, 0),
           Response(200, ContentTypes.html, 3, TRUE, 7) }

\* addresses handed to _is_valid_email
EmailInputs == {
    <<"u","s","e","r","@","e","x","a","m","p","l","e",".","c","o","m">>, <<"t","e","s","t",".","e","m","a","i","l","+","t","a","g","@","d","o","m","a","i","n",".","o","r","g">>, <<>>, <<"i","n","v","a","l","i","d","-","e","m","a","i","l">>,
    <<"@","d","o","m","a","i","n",".","c","o","m">>, <<"u","s","e","r","@">>, <<"n","o","r","e","p","l","y","@","e","x","a","m","p","l","e",".","c","o","m">>, <<"n","o","-","r","e","p","l","y","@","c","o","r","p",".","i","o">>,
    <<"w","e","b","m","a","s","t","e","r","@","c","o","r","p",".","i","o">>, <<"i","n","f","o","@","c","o","n","t","e","s","t",".","c","o","m">>, <<"j","o","h","n",".","d","o","e","@","c","o","m","p","a","n","y",".","n","e","t">> }

\* text and markup handed to _extract_emails
EmailPages == {
    [text |-> << <<"i","n","f","o","@","e","x","a","m","p","l","e",".","c","o","m">>, <<"s","u","p","p","o","r","t","@","t","e","s","t","s","i","t","e",".","o","r","g">>,
                 <<"j","o","h","n",".","d","o","e","@","c","o","m","p","a","n","y",".","n","e","t">>, <<"@","i","n","v","a","l","i","d",".","c","o","m">>, <<"i","n","c","o","m","p","l","e","t","e","@">> >>,
     soup |-> <<>>],
    [text |-> <<>>,
     soup |-> << Element("a", TRUE, <<"m","a","i","l","t","o",":","c","o","n","t","a","c","t","@","e","x","a","m","p","l","e",".","c","o","m">>, <<"C","o","n","t","a","c","t"," ","U","s">>),
                 Element("a", TRUE, <<"m","a","i","l","t","o",":","s","a","l","e","s","@","c","o","r","p",".","i","o","?","s","u","b","j","e","c","t","=","I","n","q","u","i","r","y">>, <<"S","a","l","e","s">>),
                 Element("a", TRUE, <<"m","a","i","l","t","o",":","n","o","r","e","p","l","y","@","e","x","a","m","p","l","e",".","c","o","m">>, <<"N","o"," ","R","e","p","l","y">>) >>] }

\* self.config.email: the provider and the smtp attribute, which the
\* EmailConfig of config.py does not have
Providers == {"sendgrid", "gmail_api", "smtp"}

SmtpAttributes == {
    [has_smtp |-> FALSE, smtp |-> [k \in {} |-> ""]],
    [has_smtp |-> TRUE, smtp |-> [k \in {} |-> ""]],
    [has_smtp |-> TRUE, smtp |-> [username |-> "user", password |-> "secret"]],
    [has_smtp |-> TRUE, smtp |-> [username |-> "", password |-> "secret"]],
    [has_smtp |-> TRUE, smtp |-> [username |-> "user", password |-> ""]] }

EmailConfigs ==
    {[provider |-> p, has_smtp |-> a.has_smtp, smtp |-> a.smtp] :
        p \in Providers, a \in SmtpAttributes}

\* what the send_email of SendGrid or of the Gmail API can do
PrimaryOutcomes == {
    [kind |-> "result", result |-> [success |-> TRUE, message_id |-> "test_id"]],
    [kind |-> "result", result |-> [success |-> FALSE, error |-> "failed"]],
    [kind |-> "raise", result |-> [raised |-> "Exception"]] }

\* what the SMTP server can do
SmtpOutcomes == {"ok", "SMTPAuthenticationError", "SMTPRecipientsRefused", "OSError"}

\* GmailService: the limits of the configuration, the calls of one
\* service object and the days its clock passes through
MaxDailyLimit == 2

MaxSendCalls == 4

MaxDay == 2

DailyLimits == 0..MaxDailyLimit

\* emails per minute; 0 makes wait_if_needed divide by zero
RateLimits == {0, 10}

\* what the try block of send_email meets: the message is sent, the API
\* answers with an error, or the credentials fail before the API is called
GmailOutcomes == {"sent", "HttpError", "CredentialsError"}

\* inputs of crawl_keyword
CrawlModes == {"light", "browser"}

Keywords == { <<"s","e","o">>, <<"w","e","b"," ","d","e","v">>, <<"c","+","+"," ","&"," ","g","o">> }

MaxResultsInputs == {5, 10}

\* robots.txt of the search host for the configured user agent
RobotsStates == {"allows", "disallows", "unreadable", "check fails"}

Container(h3, title, a, href, snippet) ==
    [h3 |-> h3, title |-> title, a |-> a, href |-> href, snippet |-> snippet]

\* the div.g containers of a result page
ResultPages == {
    <<>>,
    << Container(TRUE, <<" ","F","i","r","s","t"," ">>, TRUE, <<"h","t","t","p","s",":","/","/","e","x","a","m","p","l","e",".","e","d","u","/","a">>, <<"a","b","o","u","t"," ","a">>),
       Container(TRUE, <<"M","o","r","e">>, TRUE, <<"/","s","e","a","r","c","h","?","q","=","m","o","r","e">>, <<>>),
       Container(FALSE, <<>>, TRUE, <<"h","t","t","p","s",":","/","/","c","o","r","p",".","i","o","/">>, <<>>),
       Container(TRUE, <<"C","a","c","h","e","d">>, TRUE, <<"h","t","t","p","s",":","/","/","w","e","b","c","a","c","h","e",".","g","o","o","g","l","e",".","c","o","m","/","x">>, <<>>),
       Container(TRUE, <<"L","a","s","t">>, TRUE, <<"h","t","t","p",":","/","/","c","o","r","p",".","i","o","/","b">>, <<>>) >> }

\* what the search request can do
SearchOutcomes ==
    {[kind |-> k, containers |-> <<>>, elapsed |-> 0] :
        k \in {"RequestException", "HTTPError", "TimeoutError"}}
    \cup {[kind |-> "page", containers |-> c, elapsed |-> 2] : c \in ResultPages}

\* inputs of _calculate_confidence_score: lists of 0..MaxSignals items and
\* a page, given by its URL and the length of its text
MaxSignals == 4

SignalList(n) == [i \in 1..n |-> IntToStr(i)]

SignalDict(n) == [k \in {social_platforms[i] : i \in 1..n} |-> <<"h","t","t","p","s",":","/","/","x",".","o","r","g","/">>]

ConfidencePageUrls == {
    <<"h","t","t","p","s",":","/","/","s","i","t","e",".","o","r","g","/">>, <<"h","t","t","p","s",":","/","/","s","i","t","e",".","o","r","g","/","c","o","n","t","a","c","t">>, <<"h","t","t","p","s",":","/","/","s","i","t","e",".","o","r","g","/","A","b","o","u","t","-","U","s">>,
    <<"h","t","t","p","s",":","/","/","s","t","e","a","m",".","o","r","g","/","s","h","o","p">> }

ContentLengths == {500, 501}

ConfidencePages ==
    {None} \cup {PageContent(url, <<>>, <<Filler(n)>>,
                             << Element("p", FALSE, <<>>, <<>>) >>, 200, NoneStr) :
                    url \in ConfidencePageUrls, n \in ContentLengths}

\* inputs of _normalize_text: every text of up to MaxTextLen characters over
\* a word character, a space, a tab, a removed character and a period
MaxTextLen == 5
NormalizeAlphabet == {"a", " ", "\t", "@", "."}
NormalizeTexts == UNION {[1..n -> NormalizeAlphabet] : n \in 0..MaxTextLen}

\* ThreadPoolExecutor(max_workers=3), scheduler.py 389
max_workers == 3
Workers == 1..max_workers

\* the contacts and the campaign of a database
MaxContacts == 2
Contacts == 1..MaxContacts
MaxRuns == 2

\* domain_info.domain of a contact
ContactDomain(contact) == IF contact % 2 = 1 THEN <<"e","x","a","m","p","l","e",".","c","o","m">> ELSE <<"t","e","s","t","s","i","t","e",".","o","r","g">>

\* campaign.target_domains and campaign.exclude_domains: NULL (falsy, like the empty list) or a list
TargetDomains == {<<>>, << <<"e","x","a","m","p","l","e">> >>}
ExcludeDomains == {<<>>, << <<".","o","r","g">> >>}

\* a campaign row as the column defaults make it (models.py 211-225)
NewCampaign(target_domains, exclude_domains) ==
    [status |-> "draft", total_recipients |-> 0, emails_sent |-> 0, emails_failed |-> 0,
     target_domains |-> target_domains, exclude_domains |-> exclude_domains]

\* what one turn of the loop of _send_campaign_emails meets: the service
\* reports success, reports failure, or the turn raises before the send
\* (line 236 on a contact with neither company nor domain_info)
SendOutcomes == {"sent", "failed", "raised"}

(***************************************************************************)
(* EmailJob._send_campaign_emails (scheduler.py 182-301)                    *)
(***************************************************************************)
\* lines 196-211: the contacts of status 'new', in the order of their ids,
\* kept when some target domain occurs in their domain and no excluded one does
IsRecipient(contact, email_status, campaign) ==
    /\ email_status = "new"
    /\ campaign.target_domains = <<>> \/ \E i \in DOMAIN campaign.target_domains : Contains(ContactDomain(contact), campaign.target_domains[i])
    /\ campaign.exclude_domains = <<>> \/ ~\E i \in DOMAIN campaign.exclude_domains : Contains(ContactDomain(contact), campaign.exclude_domains[i])

RecipientsOf(contacts, campaign) ==
    SelectSeq([i \in 1..MaxContacts |-> i], LAMBDA c : IsRecipient(c, contacts[c], campaign))

\* lines 249-265 and 278-280: the counter one turn of the loop adds to
CountSend(campaign, outcome) ==
    IF outcome = "sent" THEN [campaign EXCEPT !.emails_sent = @ + 1]
    ELSE [campaign EXCEPT !.emails_failed = @ + 1]

\* lines 294-301
CampaignReturn(campaign, results) ==
    [total_recipients |-> campaign.total_recipients, emails_sent |-> campaign.emails_sent,
     emails_failed |-> campaign.emails_failed, results |-> results]

\* a result as filter_results sees it, with the scores the scoring engine
\* gives it (parser.py 216-264)
EngineScored(result) ==
    ScoredResult(result.rank, result.domain, _calculate_relevance_score(result), _calculate_quality_score(result, _analyze_domain(result.domain)))
(***************************************************************************)
(* State                                                                   *)
(***************************************************************************)
VARIABLES
    pc,                 \* "idle", "crawl" inside extract_contacts_from_domain, "done"
    call,               \* the call in progress or last returned: op and arguments
    ret,                \* what the last call returned (None before any return)
    urls_to_check,      \* locals of extract_contacts_from_domain
    all_emails,
    all_contact_pages,
    all_social_links,
    all_phone_numbers,
    all_addresses,
    source_urls,
    total_confidence,
    pages_processed,
    fetched,            \* every fetch_page call of the crawl, in order: url and outcome
    retries,            \* locals of fetch_page
    attempt,
    responses,          \* what session.get did in each attempt of fetch_page, in order
    primary_service,    \* fields of EmailServiceManager
    sendgrid_service,
    gmail_service,
    smtp_client,
    send_calls,         \* the send_email calls the manager made, in order
    daily_limit,        \* fields of GmailRateLimiter
    rate_limit,
    sent_today,
    last_reset,
    today,              \* datetime.now().date(), as a day number
    gmail_calls,        \* the send_email calls made on the GmailService
    api_calls,          \* the messages().send(...).execute() calls made
    workers,            \* the pool's threads inside GmailService.send_email: where each is
    delivered,          \* the messages the Gmail API accepted from the pool's threads
    contacts_db,        \* committed rows: email_status of each contact
    campaign_db,        \* committed row of the campaign
    session_contacts,   \* the same rows as the open session holds them
    session_campaign,
    recipients,         \* locals of _send_campaign_emails: contacts
    campaign_results,
    runs,               \* the campaign runs started
    received            \* the campaign emails the service accepted, per contact

crawl_locals == <<urls_to_check, all_emails, all_contact_pages, all_social_links,
                  all_phone_numbers, all_addresses, source_urls, total_confidence,
                  pages_processed, fetched>>

fetch_locals == <<retries, attempt, responses>>

\* what a step of extract_contacts_from_domain, of fetch_page leaves alone
manager_fields == <<primary_service, sendgrid_service, gmail_service, smtp_client>>

limiter_fields == <<daily_limit, rate_limit, sent_today, last_reset>>

gmail_locals == <<limiter_fields, today, gmail_calls, api_calls>>

pool_fields == <<workers, delivered>>

campaign_fields == <<contacts_db, campaign_db, session_contacts, session_campaign,
                     recipients, campaign_results, runs, received>>

outside_crawl == <<fetch_locals, manager_fields, send_calls, gmail_locals, pool_fields, campaign_fields>>
outside_fetch == <<crawl_locals, manager_fields, send_calls, gmail_locals, pool_fields, campaign_fields>>
outside_manager == <<crawl_locals, fetch_locals, gmail_locals, pool_fields, campaign_fields>>
outside_gmail == <<crawl_locals, fetch_locals, manager_fields, send_calls, pool_fields, campaign_fields>>
outside_pool == <<crawl_locals, fetch_locals, manager_fields, send_calls, campaign_fields>>
outside_campaign == <<crawl_locals, fetch_locals, manager_fields, send_calls, gmail_locals,
                      pool_fields>>

\* what a call that returns in one step leaves alone
locals == <<crawl_locals, fetch_locals, manager_fields, send_calls, gmail_locals, pool_fields,
           campaign_fields>>

vars == <<pc, call, ret, urls_to_check, all_emails, all_contact_pages,
          all_social_links, all_phone_numbers, all_addresses, source_urls,
          total_confidence, pages_processed, fetched, retries, attempt, responses,
          primary_service, sendgrid_service, gmail_service, smtp_client, send_calls,
          daily_limit, rate_limit, sent_today, last_reset, today, gmail_calls, api_calls, workers, delivered, contacts_db, campaign_db,
          session_contacts, session_campaign, recipients, campaign_results, runs, received>>

NoCall == [op |-> "none"]

\* a thread of the pool that is not inside send_email
Outside == [at |-> "outside"]

NoWorkers == [w \in Workers |-> Outside]

\* the locals of extract_contacts_from_domain when no crawl is running
ClearLocals ==
    /\ urls_to_check' = <<>>
    /\ all_emails' = {}
    /\ all_contact_pages' = {}
    /\ all_social_links' = EmptyDict
    /\ all_phone_numbers' = {}
    /\ all_addresses' = {}
    /\ source_urls' = <<>>
    /\ total_confidence' = 0
    /\ pages_processed' = 0
    /\ fetched' = <<>>
    /\ retries' = 0
    /\ attempt' = 0
    /\ responses' = <<>>
    /\ primary_service' = ""
    /\ sendgrid_service' = None
    /\ gmail_service' = None
    /\ smtp_client' = None
    /\ send_calls' = <<>>
    /\ daily_limit' = 0
    /\ rate_limit' = 0
    /\ sent_today' = 0
    /\ last_reset' = 0
    /\ today' = 0
    /\ gmail_calls' = 0
    /\ api_calls' = 0
    /\ workers' = NoWorkers
    /\ delivered' = 0
    /\ contacts_db' = <<>>
    /\ campaign_db' = None
    /\ session_contacts' = <<>>
    /\ session_campaign' = None
    /\ recipients' = <<>>
    /\ campaign_results' = <<>>
    /\ runs' = 0
    /\ received' = <<>>

Init ==
    /\ pc = "idle"
    /\ call = NoCall
    /\ ret = None
    /\ urls_to_check = <<>>
    /\ all_emails = {}
    /\ all_contact_pages = {}
    /\ all_social_links = EmptyDict
    /\ all_phone_numbers = {}
    /\ all_addresses = {}
    /\ source_urls = <<>>
    /\ total_confidence = 0
    /\ pages_processed = 0
    /\ fetched = <<>>
    /\ retries = 0
    /\ attempt = 0
    /\ responses = <<>>
    /\ primary_service = ""
    /\ sendgrid_service = None
    /\ gmail_service = None
    /\ smtp_client = None
    /\ send_calls = <<>>
    /\ daily_limit = 0
    /\ rate_limit = 0
    /\ sent_today = 0
    /\ last_reset = 0
    /\ today = 0
    /\ gmail_calls = 0
    /\ api_calls = 0
    /\ workers = NoWorkers
    /\ delivered = 0
    /\ contacts_db = <<>>
    /\ campaign_db = None
    /\ session_contacts = <<>>
    /\ session_campaign = None
    /\ recipients = <<>>
    /\ campaign_results = <<>>
    /\ runs = 0
    /\ received = <<>>

(***************************************************************************)
(* extract_contacts_from_domain, one step per fetch_page call              *)
(***************************************************************************)
\* lines 80-101: the candidate list and the empty accumulators
CrawlStart(domain, max_pages) ==
    /\ pc = "idle"
    /\ pc' = "crawl"
    /\ call' = [op |-> "extract_contacts_from_domain", domain |-> domain,
                max_pages |-> max_pages]
    /\ ret' = None
    /\ urls_to_check' = urls_to_check_of(domain, max_pages)
    /\ all_emails' = {}
    /\ all_contact_pages' = {}
    /\ all_social_links' = EmptyDict
    /\ all_phone_numbers' = {}
    /\ all_addresses' = {}
    /\ source_urls' = <<>>
    /\ total_confidence' = 0
    /\ pages_processed' = 0
    /\ fetched' = <<>>
    /\ UNCHANGED outside_crawl

\* the test of line 108 if it also asked for markup
PageAcceptedWithMarkup(outcome) ==
    /\ outcome.kind = "page"
    /\ outcome.status_code = 200
    /\ Bodies[outcome.body].html # <<>>

\* the test of line 108 on what fetch_page returned
PageAccepted(outcome) ==
    outcome.kind \in {"error", "page"} /\ outcome.status_code = 200

\* the handler of line 122 if it named one exception class
CaughtByLoopTimeoutOnly(exc) == exc = "Timeout"

\* "except Exception" of line 122 catches the exception
CaughtByLoop(exc) == TRUE

\* lines 103-123: one iteration of the loop, the fetch and the merge
CrawlFetch(outcome) ==
    /\ pc = "crawl"
    /\ Len(fetched) < Len(urls_to_check)
    /\ LET url == urls_to_check[Len(fetched) + 1]
       IN /\ fetched' = Append(fetched, [url |-> url, outcome |-> outcome])
          /\ IF outcome.kind = "raise" /\ ~CaughtByLoop(outcome.exc)
             THEN \* the exception leaves extract_contacts_from_domain
                  /\ pc' = "done"
                  /\ ret' = [raised |-> outcome.exc]
                  /\ UNCHANGED <<all_emails, all_contact_pages, all_social_links,
                                 all_phone_numbers, all_addresses, source_urls,
                                 total_confidence, pages_processed>>
             ELSE IF PageAccepted(outcome)
             THEN LET contact_info == PageSignals[url, outcome]
                  IN /\ all_emails' = all_emails \cup Range(contact_info.emails)
                     /\ all_contact_pages' =
                            all_contact_pages \cup Range(contact_info.contact_pages)
                     /\ all_social_links' =
                            DictUpdate(all_social_links, contact_info.social_links)
                     /\ all_phone_numbers' =
                            all_phone_numbers \cup Range(contact_info.phone_numbers)
                     /\ all_addresses' = all_addresses \cup Range(contact_info.addresses)
                     /\ source_urls' = Append(source_urls, url)
                     /\ total_confidence' =
                            total_confidence + contact_info.confidence_score[1]
                     /\ pages_processed' = pages_processed + 1
                     /\ UNCHANGED <<pc, ret>>
             ELSE UNCHANGED <<pc, ret, all_emails, all_contact_pages, all_social_links,
                              all_phone_numbers, all_addresses, source_urls,
                              total_confidence, pages_processed>>
    /\ UNCHANGED <<call, urls_to_check, outside_crawl>>

\* line 126 without the division
avg_confidence_undivided(total, pages) ==
    IF pages > 0 THEN <<total, 1>> ELSE <<0, 1>>

\* total_confidence / pages_processed if pages_processed > 0 else 0
avg_confidence_of(total, pages) ==
    IF pages > 0 THEN <<total, pages>> ELSE <<0, 1>>

\* lines 125-140: the average, the validated emails and the result
CrawlReturn ==
    /\ pc = "crawl"
    /\ Len(fetched) = Len(urls_to_check)
    /\ pc' = "done"
    /\ ret' = ContactInfo(_validate_emails(ListOfSet(all_emails)),
                          ListOfSet(all_contact_pages),
                          all_social_links,
                          ListOfSet(all_phone_numbers),
                          ListOfSet(all_addresses),
                          avg_confidence_of(total_confidence, pages_processed),
                          "domain_crawl",
                          source_urls)
    /\ UNCHANGED <<call, crawl_locals, outside_crawl>>

(***************************************************************************)
(* extract_contacts_from_page called directly                              *)
(***************************************************************************)
\* the pages a caller can pass, each named by the fetch it came from:
\* None, the error page, any fetched page
DirectPages ==
    {[url |-> u, outcome |-> o] :
        u \in AllCandidateUrls, o \in {x \in FetchOutcomes : x.kind # "raise"}}
    \cup {[url |-> u,
           outcome |-> [kind |-> "handmade", exc |-> "", status_code |-> 200, body |-> b]] :
            u \in AllCandidateUrls, b \in DOMAIN HandMadeBodies}

ExtractContactsFromPage(page) ==
    /\ pc = "idle"
    /\ pc' = "done"
    /\ call' = [op |-> "extract_contacts_from_page", page |-> page]
    /\ ret' = IF extract_contacts_from_page_raises(PageOf(page.url, page.outcome))
              THEN TypeError
              ELSE IF page.outcome.kind \in {"none", "handmade"}
              THEN extract_contacts_from_page(PageOf(page.url, page.outcome))
              ELSE PageSignals[page.url, page.outcome]
    /\ UNCHANGED locals

(***************************************************************************)
(* ResultParser calls                                                      *)
(***************************************************************************)
CalculateRelevanceScore(result) ==
    /\ pc = "idle"
    /\ pc' = "done"
    /\ call' = [op |-> "_calculate_relevance_score", result |-> result]
    /\ ret' = IF _calculate_relevance_score_raises(result)
              THEN [raised |-> IF result.title = NoneStr THEN "TypeError"
                               ELSE "AttributeError"]
              ELSE [score |-> _calculate_relevance_score(result)]
    /\ UNCHANGED locals

CalculateQualityScore(result) ==
    /\ pc = "idle"
    /\ pc' = "done"
    /\ call' = [op |-> "_calculate_quality_score", result |-> result]
    /\ ret' = [score |-> _calculate_quality_score(result, _analyze_domain(result.domain))]
    /\ UNCHANGED locals

ParseSearchResult(result) ==
    /\ pc = "idle"
    /\ pc' = "done"
    /\ call' = [op |-> "parse_search_result", result |-> result]
    /\ ret' = parse_search_result(result)
    /\ UNCHANGED locals

DeduplicateResults(results) ==
    /\ pc = "idle"
    /\ pc' = "done"
    /\ call' = [op |-> "deduplicate_results", results |-> results]
    /\ ret' = [results |-> deduplicate_results(results)]
    /\ UNCHANGED locals

FilterResults(results, min_quality_score, min_relevance_score) ==
    /\ pc = "idle"
    /\ pc' = "done"
    /\ call' = [op |-> "filter_results", results |-> results,
                min_quality_score |-> min_quality_score,
                min_relevance_score |-> min_relevance_score]
    /\ ret' = [results |-> filter_results(results, min_quality_score, min_relevance_score)]
    /\ UNCHANGED locals

SortResults(results, sort_by) ==
    /\ pc = "idle"
    /\ pc' = "done"
    /\ call' = [op |-> "sort_results", results |-> results, sort_by |-> sort_by]
    /\ ret' = [results |-> sort_results(results, sort_by)]
    /\ UNCHANGED locals

ParseSearchResults(results) ==
    /\ pc = "idle"
    /\ pc' = "done"
    /\ call' = [op |-> "parse_search_results", results |-> results]
    /\ ret' = [results |-> parse_search_results(results)]
    /\ UNCHANGED locals

ExtractPhoneNumbers(text) ==
    /\ pc = "idle"
    /\ pc' = "done"
    /\ call' = [op |-> "_extract_phone_numbers", text |-> text]
    /\ ret' = [phone_numbers |-> _extract_phone_numbers(text)]
    /\ UNCHANGED locals

(***************************************************************************)
(* fetch_page, one step per attempt                                        *)
(***************************************************************************)
\* line 55 and the entry of the loop
FetchPageStart(url, retries_arg, max_retries) ==
    /\ pc = "idle"
    /\ pc' = "fetch"
    /\ call' = [op |-> "fetch_page", url |-> url, retries |-> retries_arg,
                max_retries |-> max_retries]
    /\ ret' = None
    /\ retries' = RetriesOr(retries_arg, max_retries)
    /\ attempt' = 0
    /\ responses' = <<>>
    /\ UNCHANGED outside_fetch

\* lines 57-90: one pass of the loop body
FetchPageAttempt(outcome) ==
    /\ pc = "fetch"
    /\ attempt < retries + 1
    /\ responses' = Append(responses, outcome)
    /\ IF outcome.kind = "raise"
       THEN CASE fetch_page_except(outcome.exc) = "retry" ->
                    /\ attempt' = attempt + 1
                    /\ UNCHANGED <<pc, ret>>
              [] fetch_page_except(outcome.exc) = "break" ->
                    /\ pc' = "done"
                    /\ ret' = fetch_page_error_result(call.url)
                    /\ UNCHANGED attempt
              [] OTHER -> \* no clause catches it
                    /\ pc' = "done"
                    /\ ret' = [raised |-> outcome.exc]
                    /\ UNCHANGED attempt
       ELSE LET page_content == _parse_page_content(outcome, call.url, outcome.elapsed)
            IN IF page_content # None
               THEN /\ pc' = "done"
                    /\ ret' = page_content
                    /\ UNCHANGED attempt
               ELSE /\ attempt' = attempt + 1
                    /\ UNCHANGED <<pc, ret>>
    /\ UNCHANGED <<call, retries, outside_fetch>>

\* lines 93-103: the loop ran out of attempts
FetchPageReturn ==
    /\ pc = "fetch"
    /\ attempt >= retries + 1
    /\ pc' = "done"
    /\ ret' = fetch_page_error_result(call.url)
    /\ UNCHANGED <<call, fetch_locals, outside_fetch>>

IsValidEmail(email) ==
    /\ pc = "idle"
    /\ pc' = "done"
    /\ call' = [op |-> "_is_valid_email", email |-> email]
    /\ ret' = [valid |-> _is_valid_email(email)]
    /\ UNCHANGED locals

ExtractEmails(page) ==
    /\ pc = "idle"
    /\ pc' = "done"
    /\ call' = [op |-> "_extract_emails", text |-> page.text, soup |-> page.soup]
    /\ ret' = [emails |-> _extract_emails(page.text, page.soup)]
    /\ UNCHANGED locals

(***************************************************************************)
(* EmailServiceManager: the constructor, then send_email, one step per     *)
(* service it turns to                                                     *)
(***************************************************************************)
\* __init__, lines 214-250, and the entry of send_email
ManagerStart(email_config, sendgrid_constructs, gmail_constructs) ==
    /\ pc = "idle"
    /\ pc' = "manager_primary"
    /\ call' = [op |-> "EmailServiceManager.send_email", email |-> email_config]
    /\ ret' = None
    /\ primary_service' = email_config.provider
    /\ sendgrid_service' = ServiceOrNone(email_config.provider, "sendgrid", sendgrid_constructs)
    /\ gmail_service' = ServiceOrNone(email_config.provider, "gmail_api", gmail_constructs)
    /\ smtp_client' = SmtpClientOrNone(email_config.provider, email_config)
    /\ send_calls' = <<>>
    /\ UNCHANGED outside_manager

\* lines 257-285: the primary service, if there is one
ManagerPrimary(outcome) ==
    /\ pc = "manager_primary"
    /\ PrimaryToTry(primary_service, sendgrid_service, gmail_service) # "none"
    /\ send_calls' = Append(send_calls,
                            [service |-> PrimaryToTry(primary_service, sendgrid_service,
                                                      gmail_service),
                             result |-> outcome.result])
    /\ IF outcome.kind = "result" /\ outcome.result.success
       THEN /\ pc' = "done"
            /\ ret' = outcome.result
       ELSE /\ pc' = "manager_smtp"
            /\ UNCHANGED ret
    /\ UNCHANGED <<call, manager_fields, outside_manager>>

\* neither test of lines 258 and 275 holds
ManagerNoPrimary ==
    /\ pc = "manager_primary"
    /\ PrimaryToTry(primary_service, sendgrid_service, gmail_service) = "none"
    /\ pc' = "manager_smtp"
    /\ UNCHANGED <<call, ret, manager_fields, send_calls, outside_manager>>

\* lines 287-304: the SMTP client if there is one, else the failure
ManagerSmtp(server) ==
    /\ pc = "manager_smtp"
    /\ pc' = "done"
    /\ IF smtp_client # None
       THEN LET result == SMTPClient_send_email(smtp_client, server)
            IN /\ send_calls' = Append(send_calls, [service |-> "smtp", result |-> result])
               /\ ret' = IF result.success
                         THEN result @@ [fallback_used |-> TRUE]
                         ELSE result
       ELSE /\ ret' = AllFailed(primary_service)
            /\ UNCHANGED send_calls
    /\ UNCHANGED <<call, manager_fields, outside_manager>>

(***************************************************************************)
(* GmailService: one service object, its send_email calls one after the    *)
(* other, and the calendar                                                 *)
(***************************************************************************)
\* GmailService.__init__ and GmailRateLimiter.__init__
GmailServiceNew(limit, rate) ==
    /\ pc = "idle"
    /\ pc' = "gmail"
    /\ call' = [op |-> "GmailService", daily_limit |-> limit, rate_limit |-> rate]
    /\ ret' = None
    /\ daily_limit' = limit
    /\ rate_limit' = rate
    /\ sent_today' = 0
    /\ last_reset' = today
    /\ gmail_calls' = 0
    /\ api_calls' = 0
    /\ UNCHANGED <<today, outside_gmail>>

\* send_email, lines 224-229: the limit test and the wait; call keeps the
\* counters the call found
GmailSendCheck ==
    /\ pc = "gmail"
    /\ gmail_calls < MaxSendCalls
    /\ gmail_calls' = gmail_calls + 1
    /\ call' = [op |-> "GmailService.send_email", sent_today |-> sent_today,
                last_reset |-> last_reset, today |-> today, api_calls |-> api_calls]
    /\ sent_today' = sent_after_reset(sent_today, last_reset, today)
    /\ last_reset' = reset_day_after(last_reset, today)
    /\ IF ~can_send_email(sent_today, last_reset, today, daily_limit)
       THEN /\ ret' = [raised |-> "Daily email limit exceeded"]
            /\ pc' = "gmail"
       ELSE IF rate_limit = 0
       THEN /\ ret' = [raised |-> "ZeroDivisionError"]
            /\ pc' = "gmail"
       ELSE /\ ret' = None
            /\ pc' = "gmail_sending"
    /\ UNCHANGED <<daily_limit, rate_limit, today, api_calls, outside_gmail>>

\* send_email, lines 231-271: the API call and the record of a sent message
GmailSendApi(outcome) ==
    /\ pc = "gmail_sending"
    /\ pc' = "gmail"
    /\ api_calls' = IF ContactsApi(outcome) THEN api_calls + 1 ELSE api_calls
    /\ sent_today' = IF outcome = "sent" THEN sent_today + 1 ELSE sent_today
    /\ ret' = GmailResult(outcome)
    /\ UNCHANGED <<call, daily_limit, rate_limit, last_reset, today, gmail_calls,
                   outside_gmail>>

\* midnight
DayPasses ==
    /\ pc \in {"gmail", "gmail_sending"}
    /\ today < MaxDay
    /\ today' = today + 1
    /\ UNCHANGED <<pc, call, ret, limiter_fields, gmail_calls, api_calls, outside_gmail>>

\* the caller lets go of the service
GmailServiceDone ==
    /\ pc = "gmail"
    /\ pc' = "done"
    /\ UNCHANGED <<call, ret, gmail_locals, outside_gmail>>

CrawlKeyword(mode, keyword, max_results, respect_robots_txt, robots, outcome) ==
    /\ pc = "idle"
    /\ pc' = "done"
    /\ call' = [op |-> "crawl_keyword", mode |-> mode, keyword |-> keyword,
                max_results |-> max_results, respect_robots_txt |-> respect_robots_txt,
                robots |-> robots, outcome |-> outcome]
    /\ ret' = crawl_keyword(mode, keyword, max_results, respect_robots_txt, robots, outcome)
    /\ UNCHANGED locals

CalculateConfidenceScore(emails, contact_pages, social_links, phone_numbers, page) ==
    /\ pc = "idle"
    /\ pc' = "done"
    /\ call' = [op |-> "_calculate_confidence_score", emails |-> SignalList(emails),
                contact_pages |-> SignalList(contact_pages),
                social_links |-> SignalDict(social_links),
                phone_numbers |-> SignalList(phone_numbers), page_content |-> page]
    /\ ret' = [score |-> _calculate_confidence_score(
                             SignalList(emails), SignalList(contact_pages),
                             SignalDict(social_links), SignalList(phone_numbers), page)]
    /\ UNCHANGED locals

\* _normalize_text (parser.py 126-142)
NormalizeText(text) ==
    /\ pc = "idle"
    /\ pc' = "done"
    /\ call' = [op |-> "_normalize_text", text |-> text]
    /\ ret' = [text |-> _normalize_text(text)]
    /\ UNCHANGED locals

(***************************************************************************)
(* The scheduler's pool: its threads run EmailJob.run on the one EmailJob   *)
(* of JobScheduler.jobs, hence on one GmailService and one                  *)
(* GmailRateLimiter; nothing in gmail_api.py or scheduler.py takes a lock   *)
(***************************************************************************)
\* JobScheduler.__init__ (383-409) and the GmailService of its EmailJob
PoolStart(limit, rate) ==
    /\ pc = "idle"
    /\ pc' = "pool"
    /\ call' = [op |-> "JobScheduler", daily_limit |-> limit, rate_limit |-> rate]
    /\ ret' = None
    /\ daily_limit' = limit
    /\ rate_limit' = rate
    /\ sent_today' = 0
    /\ last_reset' = today
    /\ gmail_calls' = 0
    /\ api_calls' = 0
    /\ workers' = NoWorkers
    /\ delivered' = 0
    /\ UNCHANGED <<today, outside_pool>>

\* a thread enters send_email: can_send_email and wait_if_needed, 224-229
WorkerCheck(w) ==
    /\ pc = "pool"
    /\ workers[w].at = "outside"
    /\ gmail_calls < MaxSendCalls
    /\ gmail_calls' = gmail_calls + 1
    /\ sent_today' = sent_after_reset(sent_today, last_reset, today)
    /\ last_reset' = reset_day_after(last_reset, today)
    /\ IF can_send_email(sent_today, last_reset, today, daily_limit)
       THEN workers' = [workers EXCEPT ![w] = [at |-> "sending"]]
       ELSE workers' = workers
    /\ UNCHANGED <<pc, call, ret, daily_limit, rate_limit, today, api_calls, delivered,
                   outside_pool>>

\* the thread's try block up to the return of execute(), 231-242
WorkerApi(w, outcome) ==
    /\ pc = "pool"
    /\ workers[w].at = "sending"
    /\ api_calls' = IF ContactsApi(outcome) THEN api_calls + 1 ELSE api_calls
    /\ delivered' = IF outcome = "sent" THEN delivered + 1 ELSE delivered
    /\ workers' = [workers EXCEPT ![w] = IF outcome = "sent" THEN [at |-> "recording"]
                                          ELSE Outside]
    /\ UNCHANGED <<pc, call, ret, limiter_fields, today, gmail_calls, outside_pool>>

\* record_sent_email, line 190: self.sent_today += 1 reads the field ...
WorkerLoad(w) ==
    /\ pc = "pool"
    /\ workers[w].at = "recording"
    /\ workers' = [workers EXCEPT ![w] = [at |-> "storing", sent_today |-> sent_today]]
    /\ UNCHANGED <<pc, call, ret, gmail_locals, delivered, outside_pool>>

\* ... and writes it back, one more than what it read; send_email returns
WorkerStore(w) ==
    /\ pc = "pool"
    /\ workers[w].at = "storing"
    /\ sent_today' = workers[w].sent_today + 1
    /\ workers' = [workers EXCEPT ![w] = Outside]
    /\ UNCHANGED <<pc, call, ret, daily_limit, rate_limit, last_reset, today, gmail_calls,
                   api_calls, delivered, outside_pool>>

\* every job has returned
PoolDone ==
    /\ pc = "pool"
    /\ workers = NoWorkers
    /\ pc' = "done"
    /\ UNCHANGED <<call, ret, gmail_locals, pool_fields, outside_pool>>

(***************************************************************************)
(* EmailJob._send_campaign_emails, one step per recipient, and the         *)
(* database session around it (db.py get_session)                          *)
(***************************************************************************)
\* a database with MaxContacts contacts of status 'new' and one campaign in
\* its column defaults (models.py 211-225)
CampaignsStart(target_domains, exclude_domains) ==
    /\ pc = "idle"
    /\ pc' = "campaigns"
    /\ call' = [op |-> "EmailJob"]
    /\ ret' = None
    /\ contacts_db' = [c \in Contacts |-> "new"]
    /\ campaign_db' = NewCampaign(target_domains, exclude_domains)
    /\ session_contacts' = [c \in Contacts |-> "new"]
    /\ session_campaign' = NewCampaign(target_domains, exclude_domains)
    /\ recipients' = <<>>
    /\ campaign_results' = <<>>
    /\ runs' = 0
    /\ received' = [c \in Contacts |-> 0]
    /\ UNCHANGED outside_campaign

\* lines 184-219: the session opens on the committed rows, the recipients
\* are selected and the campaign is set running
RunStart ==
    /\ pc = "campaigns"
    /\ runs < MaxRuns
    /\ runs' = runs + 1
    /\ pc' = "campaign_run"
    /\ call' = [op |-> "_send_campaign_emails", campaign |-> campaign_db,
                contacts |-> contacts_db]
    /\ ret' = None
    /\ session_contacts' = contacts_db
    /\ recipients' = RecipientsOf(contacts_db, campaign_db)
    /\ session_campaign' = [campaign_db EXCEPT !.status = "running",
                               !.total_recipients = Len(RecipientsOf(contacts_db, campaign_db))]
    /\ campaign_results' = <<>>
    /\ UNCHANGED <<contacts_db, campaign_db, received, outside_campaign>>

\* lines 221-286: one turn of the loop
RunSend(outcome) ==
    /\ pc = "campaign_run"
    /\ Len(campaign_results) < Len(recipients)
    /\ LET contact == recipients[Len(campaign_results) + 1]
       IN /\ received' = IF outcome = "sent" THEN [received EXCEPT ![contact] = @ + 1]
                         ELSE received
          /\ session_contacts' = IF outcome = "sent"
                                 THEN [session_contacts EXCEPT ![contact] = "contacted"]
                                 ELSE session_contacts
          /\ session_campaign' = CountSend(session_campaign, outcome)
          /\ campaign_results' = Append(campaign_results, [contact_id |-> contact, success |-> outcome = "sent"])
    /\ UNCHANGED <<pc, call, ret, contacts_db, campaign_db, recipients, runs, outside_campaign>>

\* lines 288-301 and db.py 80-88: the campaign is completed and the session
\* commits, or the commit raises and the session is rolled back
RunCommit(committed) ==
    /\ pc = "campaign_run"
    /\ Len(campaign_results) = Len(recipients)
    /\ pc' = "campaigns"
    /\ IF committed
       THEN /\ campaign_db' = [session_campaign EXCEPT !.status = "completed"]
            /\ contacts_db' = session_contacts
            /\ ret' = CampaignReturn([session_campaign EXCEPT !.status = "completed"], campaign_results)
       ELSE /\ campaign_db' = campaign_db
            /\ contacts_db' = contacts_db
            /\ ret' = [raised |-> "OperationalError"]
    /\ session_campaign' = campaign_db'
    /\ session_contacts' = contacts_db'
    /\ UNCHANGED <<call, recipients, campaign_results, runs, received, outside_campaign>>

\* no more runs
CampaignsDone ==
    /\ pc = "campaigns"
    /\ pc' = "done"
    /\ UNCHANGED <<call, ret, campaign_fields, outside_campaign>>

\* filter_results with its default thresholds 0.3 and 0.2 (parser.py 289-291)
\* on a result the scoring engine scored
FilterScoredResult(result) ==
    /\ pc = "idle"
    /\ pc' = "done"
    /\ call' = [op |-> "filter_results", results |-> <<EngineScored(result)>>,
                min_quality_score |-> 18, min_relevance_score |-> 12, scored |-> result]
    /\ ret' = [results |-> filter_results(<<EngineScored(result)>>, 18, 12)]
    /\ UNCHANGED locals

(***************************************************************************)
(* The caller                                                              *)
(***************************************************************************)
\* the call has returned and the caller goes on to its next call; no call
\* leaves anything behind for the next
NextCall ==
    /\ pc = "done"
    /\ pc' = "idle"
    /\ call' = NoCall
    /\ ret' = None
    /\ ClearLocals

\* a call starts from pc = "idle", where its arguments are drawn
Next ==
    \/ pc = "idle" /\ \E domain \in Domains, max_pages \in MaxPagesInputs : CrawlStart(domain, max_pages)
    \/ \E outcome \in FetchOutcomes : CrawlFetch(outcome)
    \/ CrawlReturn
    \/ pc = "idle" /\ \E page \in DirectPages : ExtractContactsFromPage(page)
    \/ pc = "idle" /\ \E result \in ScoredInputs : CalculateRelevanceScore(result)
    \/ pc = "idle" /\ \E result \in ScoredInputs : CalculateQualityScore(result)
    \/ pc = "idle" /\ \E result \in SearchResults : ParseSearchResult(result)
    \/ pc = "idle" /\ \E results \in ResultLists : DeduplicateResults(results)
    \/ pc = "idle" /\ \E results \in ScoredLists, q \in MinQualityScores, r \in MinRelevanceScores :
          FilterResults(results, q, r)
    \/ pc = "idle" /\ \E results \in ScoredLists, sort_by \in SortKeys : SortResults(results, sort_by)
    \/ pc = "idle" /\ \E results \in Batches : ParseSearchResults(results)
    \/ pc = "idle" /\ \E text \in PhoneTexts : ExtractPhoneNumbers(text)
    \/ pc = "idle" /\ \E url \in FetchUrls, retries_arg \in RetriesInputs, max_retries \in ConfigMaxRetries :
           FetchPageStart(url, retries_arg, max_retries)
    \/ \E outcome \in GetOutcomes : FetchPageAttempt(outcome)
    \/ FetchPageReturn
    \/ pc = "idle" /\ \E email \in EmailInputs : IsValidEmail(email)
    \/ pc = "idle" /\ \E page \in EmailPages : ExtractEmails(page)
    \/ pc = "idle" /\ \E email_config \in EmailConfigs, sendgrid_constructs, gmail_constructs \in BOOLEAN :
           ManagerStart(email_config, sendgrid_constructs, gmail_constructs)
    \/ \E outcome \in PrimaryOutcomes : ManagerPrimary(outcome)
    \/ ManagerNoPrimary
    \/ \E server \in SmtpOutcomes : ManagerSmtp(server)
    \/ pc = "idle" /\ \E limit \in DailyLimits, rate \in RateLimits : GmailServiceNew(limit, rate)
    \/ GmailSendCheck
    \/ \E outcome \in GmailOutcomes : GmailSendApi(outcome)
    \/ DayPasses
    \/ GmailServiceDone
    \/ pc = "idle" /\ \E mode \in CrawlModes, keyword \in Keywords, max_results \in MaxResultsInputs,
          respect_robots_txt \in BOOLEAN, robots \in RobotsStates, outcome \in SearchOutcomes :
           CrawlKeyword(mode, keyword, max_results, respect_robots_txt, robots, outcome)
    \/ pc = "idle" /\ \E page \in ConfidencePages,
          emails, contact_pages, social_links, phone_numbers \in 0..MaxSignals :
           CalculateConfidenceScore(emails, contact_pages, social_links, phone_numbers, page)
    \/ pc = "idle" /\ \E text \in NormalizeTexts : NormalizeText(text)
    \/ pc = "idle" /\ \E limit \in DailyLimits, rate \in RateLimits \ {0} : PoolStart(limit, rate)
    \/ \E w \in Workers : WorkerCheck(w)
    \/ \E w \in Workers, outcome \in GmailOutcomes : WorkerApi(w, outcome)
    \/ \E w \in Workers : WorkerLoad(w)
    \/ \E w \in Workers : WorkerStore(w)
    \/ PoolDone
    \/ pc = "idle" /\ \E target_domains \in TargetDomains, exclude_domains \in ExcludeDomains : CampaignsStart(target_domains, exclude_domains)
    \/ RunStart
    \/ \E outcome \in SendOutcomes : RunSend(outcome)
    \/ \E committed \in BOOLEAN : RunCommit(committed)
    \/ CampaignsDone
    \/ pc = "idle" /\ \E result \in SearchResults : FilterScoredResult(result)
    \/ NextCall

Spec == Init /\ [][Next]_vars


(***************************************************************************)
(* Properties                                                              *)
(***************************************************************************)
IsContactInfo(r) == "extraction_method" \in DOMAIN r

\* the call ended with an exception
IsRaised(r) == "raised" \in DOMAIN r

IsPageReturn == pc = "done" /\ call.op = "extract_contacts_from_page"

IsCrawlReturn == pc = "done" /\ call.op = "extract_contacts_from_domain"

IsDedupReturn == pc = "done" /\ call.op = "deduplicate_results"

IsParseReturn == pc = "done" /\ call.op = "parse_search_result"

\* a score <<n, d>>, the fraction n/d of ScoreOne, lies in [0.0, 1.0]
InUnitInterval(score) ==
    score[2] > 0 /\ 0 <= score[1] /\ score[1] <= ScoreOne * score[2]

RECURSIVE SumSeq(_)
SumSeq(s) == IF s = <<>> THEN 0 ELSE s[1] + SumSeq(Tail(s))

\* the entries of a fetch log that satisfy Test, in order
LogWhere(log, Test(_)) ==
    Flatten([i \in DOMAIN log |-> IF Test(log[i]) THEN <<log[i]>> ELSE <<>>], 1, Len(log))

UrlsOf(log) == [i \in DOMAIN log |-> log[i].url]

\* ---------------------------------------------------------------- C1
\* C1: every score a call returns lies in [0.0, 1.0]: the page-level
\* confidence, the domain-level average, relevance_score and quality_score
\* are never negative and never above 1.
C1_ScoresInUnitInterval ==
    pc = "done" =>
        /\ (call.op \in {"_calculate_relevance_score", "_calculate_quality_score"}
               /\ ~IsRaised(ret))
              => ret.score \in 0..ScoreOne
        /\ (call.op \in {"extract_contacts_from_page", "extract_contacts_from_domain"}
               /\ ~IsRaised(ret))
              => IsContactInfo(ret) /\ InUnitInterval(ret.confidence_score)

\* a quality score whose terms add up to 1.1 (high-quality domain, fast
\* response, long title and snippet) and that comes back as 1.0
C1_Witness ==
    /\ pc = "done"
    /\ call.op = "_calculate_quality_score"
    /\ _analyze_domain(call.result.domain) # NoDomainInfo
    /\ _analyze_domain(call.result.domain).quality = "high"
    /\ call.result.response_time < 2000
    /\ Len(call.result.title) > 10
    /\ Len(call.result.snippet) > 30
    /\ ret.score = ScoreOne

\* ---------------------------------------------------------------- C2
WellFormed(result) ==
    /\ result.title # <<>>
    /\ result.url # <<>>
    /\ result.snippet # <<>>
    /\ result.rank >= 1
    /\ result.domain # <<>>

\* C2: parse_search_result on a well-formed result returns a ParsedResult
\* (not None) with the input's title, url, snippet, rank and domain, and
\* with the normalized text, the keywords, domain_info, the language and
\* both scores computed from the input.
C2_ParseReturnsEnrichedResult ==
    (IsParseReturn /\ WellFormed(call.result)) =>
        /\ ret # None
        /\ ret.title = call.result.title
        /\ ret.url = call.result.url
        /\ ret.snippet = call.result.snippet
        /\ ret.rank = call.result.rank
        /\ ret.domain = call.result.domain
        /\ ret.normalized_title = _normalize_text(call.result.title)
        /\ ret.normalized_snippet = _normalize_text(call.result.snippet)
        /\ ret.keywords =
              _extract_keywords(call.result.title \o <<" ">> \o call.result.snippet, 10)
        /\ ret.domain_info = _analyze_domain(call.result.domain)
        /\ ret.language = _detect_language(call.result.title \o <<" ">> \o call.result.snippet)
        /\ ret.relevance_score = _calculate_relevance_score(call.result)
        /\ ret.quality_score =
              _calculate_quality_score(call.result, _analyze_domain(call.result.domain))

\* ---------------------------------------------------------------- C3
TitleKey(r) == Lower(_normalize_text(r.title))

\* out is a subsequence of in, in the order of in; the rank of an item of
\* the model's lists is its position in the input
IsSubsequence(out, in) ==
    \A k \in DOMAIN out :
        /\ out[k].rank \in DOMAIN in
        /\ in[out[k].rank] = out[k]
        /\ k > 1 => out[k - 1].rank < out[k].rank

NoSharedUrl(out) ==
    \A j, k \in DOMAIN out : j # k => out[j].url # out[k].url

NoSharedTitleKey(out) ==
    \A j, k \in DOMAIN out : j # k => TitleKey(out[j]) # TitleKey(out[k])

\* the survivor of every URL group is the first item of the group
SurvivorIsFirstOfUrlGroup(out, in) ==
    \A k \in DOMAIN out :
        \A i \in 1..(out[k].rank - 1) : in[i].url # out[k].url

\* every item of the survivor's URL group before the survivor has the
\* title key of an item kept before it
SurvivorIsFirstWithUnseenTitle(out, in) ==
    \A k \in DOMAIN out :
        \A i \in 1..(out[k].rank - 1) :
            in[i].url = out[k].url =>
                \E j \in DOMAIN out :
                    out[j].rank < i /\ TitleKey(out[j]) = TitleKey(in[i])

\* C3 as stated: the result is a subsequence of the input, no two of its
\* items share a URL or a normalized-lowercased title, and the survivor of
\* every group of items sharing a URL is the first-encountered one.
C3_Original ==
    IsDedupReturn =>
        /\ IsSubsequence(ret.results, call.results)
        /\ NoSharedUrl(ret.results)
        /\ NoSharedTitleKey(ret.results)
        /\ SurvivorIsFirstOfUrlGroup(ret.results, call.results)

\* C3: the result is a subsequence of the input, no two of its items share
\* a URL or a normalized-lowercased title, and the survivor of every group
\* of items sharing a URL is the first item of the group whose title key
\* is not that of an item kept before it.
C3_DedupKeepsFirstUnseen ==
    IsDedupReturn =>
        /\ IsSubsequence(ret.results, call.results)
        /\ NoSharedUrl(ret.results)
        /\ NoSharedTitleKey(ret.results)
        /\ SurvivorIsFirstWithUnseenTitle(ret.results, call.results)

\* a URL group whose first item went for its title and whose second item
\* survived
C3_Witness ==
    /\ IsDedupReturn
    /\ Len(call.results) = 3
    /\ call.results[2].url = call.results[3].url
    /\ call.results[1].url # call.results[2].url
    /\ TitleKey(call.results[1]) = TitleKey(call.results[2])
    /\ call.results[1].title # call.results[2].title
    /\ ret.results = <<call.results[1], call.results[3]>>

\* ---------------------------------------------------------------- C4
\* the page the caller of extract_contacts_from_page passed
CallPage == PageOf(call.page.url, call.page.outcome)

\* C4: extract_contacts_from_page on None or on a page with empty markup
\* does not raise and returns empty emails, contact pages, social links,
\* phone numbers and addresses, confidence 0.0, extraction_method
\* "empty_page" and no source URLs.
C4_EmptyPageGivesEmptySignals ==
    (IsPageReturn /\ (CallPage = None \/ CallPage.html = <<>>)) =>
        /\ IsContactInfo(ret)
        /\ ret.emails = <<>>
        /\ ret.contact_pages = <<>>
        /\ DOMAIN ret.social_links = {}
        /\ ret.phone_numbers = <<>>
        /\ ret.addresses = <<>>
        /\ ret.confidence_score[1] = 0
        /\ ret.extraction_method = "empty_page"
        /\ ret.source_urls = <<>>

\* a page that has text with an address in it but no markup
C4_Witness ==
    /\ IsPageReturn
    /\ CallPage # None
    /\ CallPage.html = <<>>
    /\ CallPage.content # <<>>
    /\ CallPage.status_code = 200
    /\ ret.extraction_method = "empty_page"

\* ---------------------------------------------------------------- C5
\* the fetch returned a page that went on to extract_contacts_from_page
FetchProcessed(entry) ==
    entry.outcome.kind = "page" /\ entry.outcome.status_code = 200

\* C5: a fetch that raises, returns nothing or returns a failed page does
\* not abort extract_contacts_from_domain: every candidate URL is fetched,
\* the call returns a ContactInfo with extraction_method "domain_crawl",
\* and source_urls is the list of the processed URLs in fetch order.
C5_FetchFailureDoesNotAbort ==
    IsCrawlReturn =>
        /\ IsContactInfo(ret)
        /\ ret.extraction_method = "domain_crawl"
        /\ UrlsOf(fetched) = urls_to_check_of(call.domain, call.max_pages)
        /\ ret.source_urls = UrlsOf(LogWhere(fetched, FetchProcessed))

\* the first fetch raised and the second URL was fetched and processed
C5_Witness ==
    /\ IsCrawlReturn
    /\ Len(fetched) = 2
    /\ fetched[1].outcome.kind = "raise"
    /\ fetched[1].outcome.exc = "RuntimeError"
    /\ FetchProcessed(fetched[2])
    /\ ret.source_urls = <<fetched[2].url>>

\* ---------------------------------------------------------------- C6
\* the confidence extract_contacts_from_page gives the page of a fetch
PageConfidence(entry) == PageSignals[entry.url, entry.outcome].confidence_score[1]

ProcessedConfidences ==
    LET processed == LogWhere(fetched, FetchProcessed)
    IN [i \in DOMAIN processed |-> PageConfidence(processed[i])]

\* C6: the confidence of extract_contacts_from_domain is the sum of the
\* confidences of the processed pages over their number, 0 when there is
\* none; a result with no source pages has confidence 0.0 and empty
\* email, contact-page, social-link, phone and address collections.
C6_AverageOverProcessedPages ==
    /\ IsCrawlReturn =>
          /\ IsContactInfo(ret)
          /\ ret.confidence_score[2] > 0
          /\ IF ProcessedConfidences = <<>>
             THEN ret.confidence_score[1] = 0
             ELSE ret.confidence_score[1] * Len(ProcessedConfidences)
                      = SumSeq(ProcessedConfidences) * ret.confidence_score[2]
    /\ ((IsCrawlReturn \/ IsPageReturn) /\ IsContactInfo(ret) /\ ret.source_urls = <<>>) =>
          /\ ret.confidence_score[1] = 0
          /\ ret.emails = <<>>
          /\ ret.contact_pages = <<>>
          /\ DOMAIN ret.social_links = {}
          /\ ret.phone_numbers = <<>>
          /\ ret.addresses = <<>>

\* two processed pages of different confidence
C6_Witness ==
    /\ IsCrawlReturn
    /\ Len(ProcessedConfidences) = 2
    /\ ProcessedConfidences[1] # ProcessedConfidences[2]
    /\ ProcessedConfidences[1] > 0
    /\ ProcessedConfidences[2] > 0

\* ---------------------------------------------------------------- C7
Occurrences(s, x) == Cardinality({i \in DOMAIN s : s[i] = x})

\* lowercase, once in the list, with an "@", free of every spam indicator
\* and of the strict format
CleanEmail(emails, e) ==
    /\ e = Lower(e)
    /\ Occurrences(emails, e) = 1
    /\ Contains(e, <<"@">>)
    /\ \A indicator \in spam_indicators : ~Contains(e, indicator)
    /\ FullMatch(StrictEmailFormat, e, FALSE)

MatchingAnchors(soup, platform) ==
    {i \in DOMAIN AnchorsWithHref(soup) :
        ReMatch(social_patterns[platform], AnchorsWithHref(soup)[i].href, TRUE)}

\* every platform of the result has the href of the anchor Pick chooses
\* among the anchors that match it
SocialLinksKeep(Pick(_)) ==
    (IsPageReturn /\ CallPage # None /\ CallPage.html # <<>> /\ ~IsRaised(ret)) =>
        /\ DOMAIN ret.social_links \subseteq Range(social_platforms)
        /\ \A platform \in Range(social_platforms) :
              LET hits == MatchingAnchors(CallPage.html, platform)
              IN IF hits = {} THEN platform \notin DOMAIN ret.social_links
                 ELSE /\ platform \in DOMAIN ret.social_links
                      /\ ret.social_links[platform] =
                            AnchorsWithHref(CallPage.html)[Pick(hits)].href

FirstOf(S) == CHOOSE i \in S : \A j \in S : i <= j

LastOf(S) == CHOOSE i \in S : \A j \in S : j <= i

\* C8 as stated: one URL per platform at most, and of several anchors
\* that match a platform the first in document order is kept.
C8_Original == SocialLinksKeep(FirstOf)

\* C8: one URL per platform at most, and of several anchors that match a
\* platform the last in document order is kept.
C8_LastAnchorWins == SocialLinksKeep(LastOf)

\* a page with two twitter anchors
C8_Witness ==
    /\ IsPageReturn
    /\ CallPage # None
    /\ CallPage.html # <<>>
    /\ Cardinality(MatchingAnchors(CallPage.html, "twitter")) = 2
    /\ ret.social_links["twitter"] = <<"h","t","t","p","s",":","/","/","t","w","i","t","t","e","r",".","c","o","m","/","s","e","c","o","n","d">>

\* ---------------------------------------------------------------- C9
\* the fetch returned a page with a status from 200 to 299
Fetched2xx(entry) ==
    /\ entry.outcome.kind = "page"
    /\ 200 <= entry.outcome.status_code
    /\ entry.outcome.status_code <= 299

\* every fetch that satisfies Test went through extract_contacts_from_page:
\* its signals are in the union, it is counted in the average and its URL
\* is in source_urls
PagesProcessed(Test(_)) ==
    IsCrawlReturn =>
        /\ IsContactInfo(ret)
        /\ \A i \in DOMAIN fetched :
              Test(fetched[i]) =>
                  LET contact_info == PageSignals[fetched[i].url, fetched[i].outcome]
                  IN /\ fetched[i].url \in Range(ret.source_urls)
                     /\ Range(contact_info.emails) \subseteq Range(ret.emails)
                     /\ Range(contact_info.contact_pages) \subseteq Range(ret.contact_pages)
                     /\ DOMAIN contact_info.social_links \subseteq DOMAIN ret.social_links
                     /\ Range(contact_info.phone_numbers) \subseteq Range(ret.phone_numbers)
                     /\ Range(contact_info.addresses) \subseteq Range(ret.addresses)
        /\ LET counted == LogWhere(fetched, Test)
           IN counted # <<>> =>
                 /\ ret.confidence_score[2] >= Len(counted)
                 /\ ret.confidence_score[1] >=
                       SumSeq([i \in DOMAIN counted |-> PageConfidence(counted[i])])

\* C9 as stated: every page fetched with a status from 200 to 299 is
\* processed: its signals are in the union, it is counted in the average
\* and it is in source_urls.
C9_Original == PagesProcessed(Fetched2xx)

\* C9: every page fetched with status 200 is processed: its signals are in
\* the union, it is counted in the average and it is in source_urls.
C9_Status200Processed == PagesProcessed(FetchProcessed)

\* a crawl of a 200 page without markup and a 203 page with contacts
C9_Witness ==
    /\ IsCrawlReturn
    /\ Len(fetched) = 2
    /\ fetched[1].outcome.kind = "page"
    /\ fetched[1].outcome.status_code = 200
    /\ fetched[1].outcome.body = 3
    /\ fetched[2].outcome.kind = "page"
    /\ fetched[2].outcome.status_code = 203
    /\ ret.source_urls = <<fetched[1].url>>

\* ---------------------------------------------------------------- C10
\* the homepage of a domain and the candidate list as documented
Homepage(domain) ==
    IF Contains(domain, <<":","/","/">>) THEN domain ELSE <<"h","t","t","p","s",":","/","/">> \o domain

DocumentedCandidates(domain) ==
    <<Homepage(domain)>>
        \o [i \in DOMAIN contact_page_paths |-> Homepage(domain) \o contact_page_paths[i]]

\* C10: for every domain and every integer max_pages the fetches go out
\* one at a time in candidate-list order, the homepage first and then the
\* homepage with each contact path, and there are at most max_pages of them.
C10_FetchesBoundedAndOrdered ==
    call.op = "extract_contacts_from_domain" =>
        /\ Len(fetched) <= Max(0, call.max_pages)
        /\ \A i \in DOMAIN fetched :
              fetched[i].url = DocumentedCandidates(call.domain)[i]

\* ---------------------------------------------------------------- C11
\* C11: extraction and scoring are total: for a page or a result whose
\* fields are absent or malformed (markup without text, no title, no
\* snippet, no domain) extract_contacts_from_page, the relevance score and
\* the quality score do not raise.
C11_ExtractionAndScoringAreTotal ==
    (pc = "done" /\ call.op \in {"extract_contacts_from_page",
                                 "_calculate_relevance_score",
                                 "_calculate_quality_score"})
        => ~IsRaised(ret)

\* ---------------------------------------------------------------- C12
IsFilterReturn == pc = "done" /\ call.op = "filter_results"

PassesThresholds(result) ==
    /\ result.quality_score >= call.min_quality_score
    /\ result.relevance_score >= call.min_relevance_score

\* C12: filter_results returns the items of its input, in input order,
\* whose quality_score >= min_quality_score and whose relevance_score >=
\* min_relevance_score; with min_quality_score = 1.1 it returns the empty
\* list.
C12_FilterKeepsExactlyPassing ==
    IsFilterReturn =>
        /\ ret.results = SelectSeq(call.results, PassesThresholds)
        /\ call.min_quality_score > ScoreOne => ret.results = <<>>

\* a list with an item of quality 1.0, filtered with min_quality_score 1.1
C12_Witness ==
    /\ IsFilterReturn
    /\ call.min_quality_score > ScoreOne
    /\ \E i \in DOMAIN call.results : call.results[i].quality_score = ScoreOne
    /\ ret.results = <<>>

\* ---------------------------------------------------------------- C13
IsSortReturn == pc = "done" /\ call.op = "sort_results"

IsPermutation(out, in) ==
    /\ Len(out) = Len(in)
    /\ \A i \in DOMAIN in : Occurrences(out, in[i]) = Occurrences(in, in[i])

\* C13: for the keys relevance, quality, rank and domain sort_results
\* returns a permutation of its input in non-increasing relevance_score,
\* non-increasing quality_score, non-decreasing rank and lexicographically
\* non-decreasing domain.
C13_SortOrdersByKey ==
    (IsSortReturn /\ call.sort_by \in {"relevance", "quality", "rank", "domain"}) =>
        /\ IsPermutation(ret.results, call.results)
        /\ \A i, j \in DOMAIN ret.results :
              i < j =>
                  LET x == ret.results[i]
                      y == ret.results[j]
                  IN CASE call.sort_by = "relevance" ->
                              x.relevance_score >= y.relevance_score
                       [] call.sort_by = "quality" -> x.quality_score >= y.quality_score
                       [] call.sort_by = "rank" -> x.rank <= y.rank
                       [] call.sort_by = "domain" -> ~StrLess(y.domain, x.domain)

\* a list sorted by rank that came in by descending rank
C13_Witness ==
    /\ IsSortReturn
    /\ call.sort_by = "rank"
    /\ Len(call.results) = 3
    /\ call.results[1].rank > call.results[2].rank
    /\ call.results[2].rank > call.results[3].rank
    /\ ret.results = <<call.results[3], call.results[2], call.results[1]>>

\* ---------------------------------------------------------------- C14
IsBatchReturn == pc = "done" /\ call.op = "parse_search_results"

IsParsed(parsed) == parsed # None

IsPhoneReturn == pc = "done" /\ call.op = "_extract_phone_numbers"

\* the segments of the text that one of the phone patterns matches
PhoneMatches(text) ==
    {text[i] : i \in {j \in DOMAIN text :
                         \E p \in DOMAIN phone_patterns :
                             FullMatch(phone_patterns[p], text[j], FALSE)}}

CountIn(s, chars) == Cardinality({i \in DOMAIN s : s[i] \in chars})

\* every number returned is a match, as matched up to the whitespace
\* around it, that has at least 10 characters of the set chars; "123" is
\* not returned
PhonesHaveTenOf(chars) ==
    IsPhoneReturn =>
        /\ \A i \in DOMAIN ret.phone_numbers :
              \E m \in PhoneMatches(call.text) :
                  /\ ret.phone_numbers[i] = Strip(m)
                  /\ CountIn(m, chars) >= 10
        /\ \A i \in DOMAIN ret.phone_numbers : ret.phone_numbers[i] # <<"1","2","3">>

\* C15 as stated: a match is accepted only if it has at least 10 digits
\* once every character that is not a digit or "+" is stripped; the match
\* is stored as matched, not stripped; "123" is never returned.
C15_Original == PhonesHaveTenOf(Digits)

\* C15: a match is accepted only if at least 10 characters, digits or
\* "+", remain once every other character is stripped; the match is
\* stored as matched, not stripped; "123" is never returned.
C15_TenDigitsOrPlus == PhonesHaveTenOf(Digits \cup {"+"})

\* a match of nine digits after a "+" that is returned
C15_Witness ==
    /\ IsPhoneReturn
    /\ <<"+","1","2","3","4","5","6","7","8","9">> \in PhoneMatches(call.text)
    /\ ret.phone_numbers = << <<"+","1","2","3","4","5","6","7","8","9">> >>

\* ---------------------------------------------------------------- C16
IsFetchReturn == pc = "done" /\ call.op = "fetch_page"

\* an attempt that gave no page: session.get raised, the status is 400 or
\* more, the content type does not name text/html, or the parse failed
AttemptFailed(o) ==
    \/ o.kind = "raise"
    \/ o.status_code >= 400
    \/ "content-type" \notin DOMAIN o.headers
    \/ ~Contains(Lower(o.headers["content-type"]), <<"t","e","x","t","/","h","t","m","l">>)
    \/ ~o.parses

ErrorIsSet(page) == page.error # NoneStr

C16_WitnessExhausted ==
    /\ IsFetchReturn
    /\ Len(responses) = 3
    /\ \A i \in 1..3 : responses[i].kind = "response" /\ AttemptFailed(responses[i])
    /\ ErrorIsSet(ret)

\* ---------------------------------------------------------------- C17
IsValidEmailReturn == pc = "done" /\ call.op = "_is_valid_email"

IsExtractEmailsReturn == pc = "done" /\ call.op = "_extract_emails"

RoleAccounts == {
    <<"n","o","r","e","p","l","y">>, <<"n","o","-","r","e","p","l","y">>, <<"d","o","n","o","t","r","e","p","l","y">>, <<"d","o","-","n","o","t","-","r","e","p","l","y">>,
    <<"m","a","i","l","e","r","-","d","a","e","m","o","n">>, <<"p","o","s","t","m","a","s","t","e","r">>, <<"w","e","b","m","a","s","t","e","r">> }

LocalPart(email) == SplitFirst(email, "@")

\* local@domain.tld in the characters the validation allows
StrictForm(email) ==
    \E at \in DOMAIN email, dot \in DOMAIN email :
        /\ 1 < at /\ at + 1 < dot /\ dot + 2 <= Len(email)
        /\ email[at] = "@" /\ email[dot] = "."
        /\ \A i \in 1..(at - 1) : email[i] \in Letters \cup Digits \cup {".", "_", "%", "+", "-"}
        /\ \A i \in (at + 1)..(dot - 1) : email[i] \in Letters \cup Digits \cup {".", "-"}
        /\ \A i \in (dot + 1)..Len(email) : email[i] \in Letters

\* C17: _is_valid_email accepts every address of the strict form whose
\* local part names no role account, user@example.com among them, and
\* _extract_emails keeps info@example.com and contact@example.com found in
\* its text and its mailto links.
C17_OrdinaryAddressesAccepted ==
    /\ IsValidEmailReturn =>
          ((/\ StrictForm(call.email)
            /\ \A role \in RoleAccounts : ~Contains(Lower(LocalPart(call.email)), role))
           => ret.valid)
    /\ IsExtractEmailsReturn =>
          /\ <<"i","n","f","o","@","e","x","a","m","p","l","e",".","c","o","m">> \in Range(call.text)
                => <<"i","n","f","o","@","e","x","a","m","p","l","e",".","c","o","m">> \in Range(ret.emails)
          /\ (\E i \in DOMAIN call.soup : call.soup[i].href = <<"m","a","i","l","t","o",":","c","o","n","t","a","c","t","@","e","x","a","m","p","l","e",".","c","o","m">>)
                => <<"c","o","n","t","a","c","t","@","e","x","a","m","p","l","e",".","c","o","m">> \in Range(ret.emails)


\* ---------------------------------------------------------------- C18
IsManagerReturn == pc = "done" /\ call.op = "EmailServiceManager.send_email"

ServicesCalled == [i \in DOMAIN send_calls |-> send_calls[i].service]

Succeeded(result) == ~IsRaised(result) /\ result.success

\* the primary provider is p and its send_email was called
PrimarySent(p) ==
    /\ IsManagerReturn
    /\ primary_service = p
    /\ send_calls # <<>>
    /\ send_calls[1].service = p

\* C18: with gmail_api as primary, a primary send that succeeds is
\* returned as it is, without a call of SMTP and without fallback_used; a
\* primary send that fails is followed by exactly one SMTP attempt, and a
\* successful SMTP result is returned with fallback_used = TRUE.
C18_GmailThenSmtp ==
    PrimarySent("gmail_api") =>
        IF Succeeded(send_calls[1].result)
        THEN /\ ret = send_calls[1].result
             /\ ServicesCalled = <<"gmail_api">>
             /\ "fallback_used" \notin DOMAIN ret
        ELSE /\ ServicesCalled = <<"gmail_api", "smtp">>
             /\ Succeeded(send_calls[2].result) =>
                   /\ ret.success
                   /\ "fallback_used" \in DOMAIN ret
                   /\ ret.fallback_used = TRUE

\* the half of C18 that holds: the successful primary send
C18_PrimarySuccessReturned ==
    (PrimarySent("gmail_api") /\ Succeeded(send_calls[1].result)) =>
        /\ ret = send_calls[1].result
        /\ ServicesCalled = <<"gmail_api">>
        /\ "fallback_used" \notin DOMAIN ret

\* ---------------------------------------------------------------- C19
\* C19: with SendGrid as primary, a failed SendGrid send is followed by a
\* Gmail API send and, when that fails too, by an SMTP send, before the
\* manager reports that all email services failed.
C19_SendGridThenGmailThenSmtp ==
    (PrimarySent("sendgrid") /\ ~Succeeded(send_calls[1].result)) =>
        /\ Len(send_calls) >= 2
        /\ send_calls[2].service = "gmail_api"
        /\ ~Succeeded(send_calls[2].result) =>
              /\ Len(send_calls) >= 3
              /\ send_calls[3].service = "smtp"
        /\ ret = AllFailed("sendgrid") => ServicesCalled = <<"sendgrid", "gmail_api", "smtp">>

\* ---------------------------------------------------------------- C20
InGmailSession == pc \in {"gmail", "gmail_sending"}

\* a send_email call on the service has passed its limit test
AfterSendCheck == InGmailSession /\ call.op = "GmailService.send_email"

\* the counter the limit test of that call saw: 0 on the first check of a
\* later day, the counter the call found otherwise
CounterChecked == IF call.today > call.last_reset THEN 0 ELSE call.sent_today

LimitExceeded == [raised |-> "Daily email limit exceeded"]

\* C20: over the send_email calls one caller makes on a service,
\* sent_today never exceeds daily_limit; a call that finds the counter at
\* daily_limit or above raises "Daily email limit exceeded" and does not
\* call the mail API, and the first check on a later day sets the counter
\* to 0 first.
C20_DailyLimitHolds ==
    /\ InGmailSession => sent_today <= daily_limit
    /\ (AfterSendCheck /\ CounterChecked >= daily_limit) =>
          /\ pc = "gmail"
          /\ ret = LimitExceeded
          /\ api_calls = call.api_calls
          /\ sent_today = CounterChecked
    /\ (AfterSendCheck /\ ret = LimitExceeded) => CounterChecked >= daily_limit

\* the limit of 2 was reached, and a further call on the same day is refused
C20_Witness ==
    /\ pc = "gmail"
    /\ call.op = "GmailService.send_email"
    /\ daily_limit = 2
    /\ call.sent_today = 2
    /\ call.today = call.last_reset
    /\ api_calls >= 2
    /\ ret = LimitExceeded

\* the limit was reached, and the first call of the next day goes through
C20_WitnessNextDay ==
    /\ pc = "gmail"
    /\ call.op = "GmailService.send_email"
    /\ daily_limit = 1
    /\ call.sent_today = 1
    /\ call.today > call.last_reset
    /\ sent_today = 1
    /\ ret = [success |-> TRUE, message_id |-> "id"]

\* ---------------------------------------------------------------- C21
IsCrawlKeywordReturn == pc = "done" /\ call.op = "crawl_keyword"

\* C21: with respect_robots_txt on, in either crawl mode, a search URL that
\* robots.txt disallows is never requested and the keyword gets an empty
\* result list.
C21_RobotsHonoredInEveryMode ==
    (IsCrawlKeywordReturn /\ call.respect_robots_txt /\ call.robots = "disallows") =>
        /\ ret.requested = <<>>
        /\ ret.results = <<>>

\* the light mode alone does honor robots.txt
C21_LightModeHonorsRobots ==
    (/\ IsCrawlKeywordReturn /\ call.mode = "light"
     /\ call.respect_robots_txt /\ call.robots = "disallows") =>
        /\ ret.requested = <<>>
        /\ ret.results = <<>>

C21_SearchUrlBuilt ==
    /\ IsCrawlKeywordReturn
    /\ call.keyword = <<"c","+","+"," ","&"," ","g","o">>
    /\ ret.requested = << <<"h","t","t","p","s",":","/","/","w","w","w",".","g","o","o","g","l","e",".","c","o","m","/","s","e","a","r","c","h","?","q","=","c","%","2","B","%","2","B","+","%","2","6","+","g","o","&","n","u","m","=","1","0">> >>
    /\ Len(ret.results) = 2
    /\ ret.results[2].rank = 5
    /\ ret.results[1].title = <<"F","i","r","s","t">>
    /\ ret.results[2].domain = <<"c","o","r","p",".","i","o">>

\* ---------------------------------------------------------------- C22
IsConfidenceReturn == pc = "done" /\ call.op = "_calculate_confidence_score"

\* the four weighted terms in sixtieths: 0.4 * min(1, e/3) is 8 for each
\* of the first 3 emails, and so on
FourTerms ==
    8 * Min(3, Len(call.emails)) + 6 * Min(2, Len(call.contact_pages))
        + 4 * Min(3, Cardinality(DOMAIN call.social_links))
        + 3 * Min(2, Len(call.phone_numbers))

PageKeywords == { <<"c","o","n","t","a","c","t">>, <<"a","b","o","u","t">>, <<"t","e","a","m">> }

\* 0.05 for a page text of more than 500 characters
LengthBonus ==
    IF call.page_content # None /\ TextLen(call.page_content.content) > 500 THEN 3 ELSE 0

\* 0.1 for a page URL that contains one of the keywords as it is written
UrlBonusAsWritten ==
    IF call.page_content # None
       /\ \E k \in PageKeywords : Contains(call.page_content.url, k)
    THEN 6 ELSE 0

\* 0.1 for a page URL that contains one of the keywords in any case
UrlBonusAnyCase ==
    IF call.page_content # None
       /\ \E k \in PageKeywords : Contains(Lower(call.page_content.url), k)
    THEN 6 ELSE 0

\* C22 as stated: the score is the clamped sum of the four capped terms,
\* of 0.1 if the page URL contains "contact", "about" or "team" and of 0.05
\* if the page text is longer than 500 characters.
C22_Original ==
    IsConfidenceReturn =>
        ret.score = Min(60, FourTerms + UrlBonusAsWritten + LengthBonus)

\* C22: the same, the keywords being looked for in the lower-cased URL.
C22_ScoreIsWeightedSum ==
    IsConfidenceReturn =>
        ret.score = Min(60, FourTerms + UrlBonusAnyCase + LengthBonus)

\* two emails, one contact page, four social links and a long page whose
\* URL holds "About"
C22_Witness ==
    /\ IsConfidenceReturn
    /\ Len(call.emails) = 2 /\ Len(call.contact_pages) = 1
    /\ Cardinality(DOMAIN call.social_links) = 4 /\ Len(call.phone_numbers) = 0
    /\ call.page_content # None
    /\ call.page_content.url = <<"h","t","t","p","s",":","/","/","s","i","t","e",".","o","r","g","/","A","b","o","u","t","-","U","s">>
    /\ TextLen(call.page_content.content) = 501
    /\ ret.score = 43

\* ---------------------------------------------------------------- C24
\* every list is at or above the count that caps its term
AllTermsCapped ==
    /\ Len(call.emails) >= 3 /\ Len(call.contact_pages) >= 2
    /\ Cardinality(DOMAIN call.social_links) >= 3 /\ Len(call.phone_numbers) >= 2

\* the score of the call before the clamp of line 344
SumBeforeClamp ==
    confidence_sum(call.emails, call.contact_pages, call.social_links,
                   call.phone_numbers, call.page_content)

BothBonuses == UrlBonusAnyCase = 6 /\ LengthBonus = 3

\* C24 as stated: the four weighted terms reach 1.0 together, and with the
\* two page bonuses the sum before the clamp reaches 1.15.
C24_Original ==
    (IsConfidenceReturn /\ AllTermsCapped) =>
        /\ SumBeforeClamp - UrlBonusAnyCase - LengthBonus = 60
        /\ BothBonuses => SumBeforeClamp = 69

\* C24: the four weighted terms reach 0.9 together, and with the two page
\* bonuses the sum before the clamp reaches 1.05 and never more, so that
\* the clamp to 1.0 is what keeps the score in range.
C24_SumReachesOnePointZeroFive ==
    IsConfidenceReturn =>
        /\ SumBeforeClamp <= 63
        /\ AllTermsCapped =>
              /\ SumBeforeClamp - UrlBonusAnyCase - LengthBonus = 54
              /\ BothBonuses => (SumBeforeClamp = 63 /\ ret.score = 60)
        /\ ret.score = Min(60, SumBeforeClamp)

\* all four terms capped on a long contact page
C24_Witness ==
    /\ IsConfidenceReturn
    /\ AllTermsCapped
    /\ BothBonuses
    /\ ret.score = 60

\* ---------------------------------------------------------------- C23
IsRelevanceReturn ==
    pc = "done" /\ call.op = "_calculate_relevance_score" /\ ~IsRaised(ret)

\* max(0, 1.0 - (rank - 1) * 0.1) in sixtieths
RankComponent == Max(0, 60 - (call.result.rank - 1) * 6)

SpamWords == { <<"s","p","a","m">>, <<"a","d","s">>, <<"c","l","i","c","k">>, <<"b","u","y">> }

\* 0.5, 0.2 for a title of 30 to 100 characters, 0.2 for a snippet of more
\* than 50, and the 0.1 of the domain
ContentComponent(domain_bonus) ==
    30 + (IF 30 <= Len(call.result.title) /\ Len(call.result.title) <= 100 THEN 12 ELSE 0)
       + (IF call.result.snippet # NoneStr /\ Len(call.result.snippet) > 50 THEN 12 ELSE 0)
       + (IF domain_bonus THEN 6 ELSE 0)

DomainCleanAsWritten == \A w \in SpamWords : ~Contains(call.result.domain, w)

DomainCleanAnyCase == \A w \in SpamWords : ~Contains(Lower(call.result.domain), w)

RelevanceIs(domain_bonus) ==
    /\ 2 * ret.score = Min(120, RankComponent + ContentComponent(domain_bonus))
    /\ call.result.rank = 1 => RankComponent = 60
    /\ call.result.rank >= 11 => 2 * ret.score = ContentComponent(domain_bonus)
    /\ (/\ call.result.rank = 1 /\ Len(call.result.title) = 50
        /\ Len(call.result.snippet) = 80 /\ domain_bonus) => ret.score = 60

\* C23 as stated: relevance is min(1, (rank_component + content_component)
\* / 2), the 0.1 of the domain going to a domain that contains none of
\* spam, ads, click, buy.
C23_Original == IsRelevanceReturn => RelevanceIs(DomainCleanAsWritten)

\* C23: the same, the four words being looked for in the lower-cased
\* domain.
C23_RelevanceIsHalfSum == IsRelevanceReturn => RelevanceIs(DomainCleanAnyCase)

\* rank 1, a title of 50 characters, a snippet of 80, a clean domain
C23_Witness ==
    /\ IsRelevanceReturn
    /\ call.result.rank = 1
    /\ Len(call.result.title) = 50
    /\ Len(call.result.snippet) = 80
    /\ DomainCleanAnyCase
    /\ ret.score = 60

(***************************************************************************)
(* C25: the output of _normalize_text                                      *)
(***************************************************************************)
IsNormalizeReturn == pc = "done" /\ call.op = "_normalize_text"

NoWhitespaceRun(s) == \A i \in 1..(Len(s) - 1) : ~(s[i] \in Whitespace /\ s[i + 1] \in Whitespace)

Trimmed(s) == s = <<>> \/ (s[1] \notin Whitespace /\ s[Len(s)] \notin Whitespace)

OnlySafelist(s) == \A i \in DOMAIN s : s[i] \in NormalizeSafelist

\* C25: for every input text the output of _normalize_text has no run of two
\* or more whitespace characters, no leading or trailing whitespace, only
\* safelist characters, and normalizing it again leaves it unchanged
C25_NormalizedAndIdempotent ==
    IsNormalizeReturn =>
        /\ NoWhitespaceRun(ret.text)
        /\ Trimmed(ret.text)
        /\ OnlySafelist(ret.text)
        /\ _normalize_text(ret.text) = ret.text

\* what the code does guarantee: trimmed ends and safelist characters only
C25_TrimmedAndSafelisted ==
    IsNormalizeReturn => Trimmed(ret.text) /\ OnlySafelist(ret.text)

\* where the two differ: a removed character stood between two spaces
C25_SpacesAroundRemoved ==
    IsNormalizeReturn /\ call.text = <<"a", " ", "@", " ", "a">> /\ ret.text = <<"a", " ", " ", "a">>

(***************************************************************************)
(* C26: the daily limit under the scheduler's pool                         *)
(***************************************************************************)
\* C26: when several threads of the pool call send_email on the one service,
\* the messages sent in a day never exceed daily_limit, and once every call
\* has returned sent_today equals the number of successful sends
C26_LimitHoldsUnderThreads ==
    pc = "pool" =>
        /\ delivered <= daily_limit
        /\ (workers = NoWorkers => sent_today = delivered)

\* the first half alone
C26_NeverMoreThanLimit == pc = "pool" => delivered <= daily_limit

\* the second half alone
C26_CounterMatchesSends == pc = "pool" /\ workers = NoWorkers => sent_today = delivered


(***************************************************************************)
(* C27, C28: campaign runs                                                 *)
(***************************************************************************)
InCampaigns == pc \in {"campaigns", "campaign_run"}

\* a run of _send_campaign_emails has returned its report
IsCampaignReturn == pc = "campaigns" /\ call.op = "_send_campaign_emails" /\ ~IsRaised(ret)

\* C27: across any sequence of campaign runs a contact's email_status is
\* 'contacted' only after a send to it succeeded, and every contact receives
\* at most one successful campaign email
C27_AtMostOneEmailPerContact ==
    InCampaigns =>
        \A c \in Contacts :
            /\ contacts_db[c] = "contacted" => received[c] >= 1
            /\ session_contacts[c] = "contacted" => received[c] >= 1
            /\ received[c] <= 1

\* the first part alone: 'contacted' only after a successful send
C27_ContactedOnlyAfterSuccess ==
    InCampaigns =>
        \A c \in Contacts :
            contacts_db[c] = "contacted" \/ session_contacts[c] = "contacted" => received[c] >= 1

\* the second part alone: a turn of the loop never sends to a contact whose
\* committed status is 'contacted'
C27_ContactedNeverSentAgain ==
    [][pc = "campaign_run" => \A c \in Contacts : contacts_db[c] = "contacted" => received'[c] = received[c]]_vars

\* a contact received two campaign emails and is still 'new'
C27_SentTwice ==
    InCampaigns /\ \E c \in Contacts : received[c] = 2 /\ contacts_db[c] = "new"

\* C28: after every completed campaign run, a re-run included, emails_sent +
\* emails_failed equals total_recipients, the status is 'completed' and the
\* returned results have one entry per recipient
C28_CountersAddUp ==
    IsCampaignReturn =>
        /\ campaign_db.emails_sent + campaign_db.emails_failed = campaign_db.total_recipients
        /\ campaign_db.status = "completed"
        /\ Len(ret.results) = campaign_db.total_recipients
        /\ \A i \in DOMAIN ret.results : ret.results[i].contact_id = recipients[i]

\* what holds of every completed run: the counters grow by the number of
\* recipients of the run, one result per recipient, status 'completed'
C28_CountersGrowByRecipients ==
    IsCampaignReturn =>
        /\ campaign_db.emails_sent + campaign_db.emails_failed = call.campaign.emails_sent + call.campaign.emails_failed + campaign_db.total_recipients
        /\ campaign_db.status = "completed"
        /\ Len(ret.results) = campaign_db.total_recipients

\* a completed re-run whose counters still hold the sends of the first run
C28_RerunKeepsOldCounts ==
    IsCampaignReturn /\ call.campaign.emails_sent > 0 /\ campaign_db.emails_sent > campaign_db.total_recipients

(***************************************************************************)
(* C29: the attempts of fetch_page                                         *)
(***************************************************************************)
InFetchPage == pc \in {"fetch", "done"} /\ call.op = "fetch_page"

\* the attempt handed back a page
YieldsPage(o) == o.kind = "response" /\ _parse_page_content(o, call.url, o.elapsed) # None

\* the attempt raised something that is no exception of requests
RaisesUnexpected(o) == o.kind = "raise" /\ fetch_page_except(o.exc) = "break"

\* r + 1 for retries=r, config.max_retries + 1 when retries is omitted
RequestBudget == IF call.retries = <<>> THEN call.max_retries + 1 ELSE call.retries[1] + 1

\* a page or an unexpected exception ends the call at once: it is the last
\* request, and the call has returned
StopsAtOnce ==
    \A i \in DOMAIN responses :
        YieldsPage(responses[i]) \/ RaisesUnexpected(responses[i]) => i = Len(responses) /\ pc = "done"

\* C29: fetch_page(url, retries=r) issues at most r+1 requests for every
\* r >= 0 (max_retries+1 when retries is omitted), stops at the first attempt
\* that yields a page and leaves the loop at once on an unexpected exception
C29_AtMostRetriesPlusOne ==
    InFetchPage /\ (call.retries = <<>> \/ call.retries[1] >= 0) =>
        /\ Len(responses) <= RequestBudget
        /\ StopsAtOnce

\* the same for every r >= 1 and for an omitted retries
C29_HoldsForPositiveRetries ==
    InFetchPage /\ (call.retries = <<>> \/ call.retries[1] >= 1) =>
        /\ Len(responses) <= RequestBudget
        /\ StopsAtOnce

\* every call stops at once on a page or an unexpected exception, and never
\* goes beyond the attempts line 55 computed
C29_LoopIsBounded ==
    InFetchPage => Len(responses) <= Max(0, retries + 1) /\ attempt <= Max(0, retries + 1) /\ StopsAtOnce

\* retries=0 with max_retries 1: a second request after a timeout
C29_ZeroRetriesRetried ==
    /\ pc = "done" /\ call.op = "fetch_page"
    /\ call.retries = <<0>>
    /\ Len(responses) = 2

(***************************************************************************)
(* C30: the least scores and the default thresholds of filter_results      *)
(***************************************************************************)
IsQualityReturn == pc = "done" /\ call.op = "_calculate_quality_score" /\ ~IsRaised(ret)

\* filter_results returned from a call with the default thresholds on a
\* result the scoring engine scored
IsFilterScoredReturn == IsFilterReturn /\ "scored" \in DOMAIN call

\* C30: every quality_score is at least 0.4 and every relevance_score at
\* least 0.25, so filter_results with its default thresholds 0.3 and 0.2
\* keeps every result the scoring engine scored
C30_DefaultFilterKeepsScored ==
    /\ IsQualityReturn => ret.score >= 24
    /\ IsRelevanceReturn => ret.score >= 15
    /\ IsFilterScoredReturn =>
          /\ call.results[1].quality_score >= 24
          /\ call.results[1].relevance_score >= 15
          /\ ret.results = call.results

\* a slow page of a low-quality, spam-named domain at rank 12 with no title
\* and no snippet has both least scores and passes the default filter
C30_Witness ==
    /\ IsFilterScoredReturn
    /\ call.scored.rank = 12
    /\ call.results[1].quality_score = 24
    /\ call.results[1].relevance_score = 15
    /\ ret.results = call.results
====
